---- MODULE Spec2Model ----
(***************************************************************************)
(* A model of the advisory-to-inference core of vulnerablecode:            *)
(*   - the nearest-patched matcher, the range resolver and the             *)
(*     affected-package merger (vulnerabilities.helpers and                *)
(*     vulnerabilities.importer, modelled from the specification);         *)
(*   - GitLabBasicImprover and parse_yaml_file of the GitLab importer       *)
(*     (vulnerabilities/importers/gitlab.py);                              *)
(*   - the crawl and the page parser of the PostgreSQL importer            *)
(*     (vulnerabilities/importers/postgresql.py).                          *)
(*                                                                         *)
(* Versions of one ecosystem are a strict total order: they are the        *)
(* integers 1..MaxVersion.  A version range is opaque and only answers     *)
(* "contains": it is the set of versions it contains.                      *)
(***************************************************************************)
EXTENDS Integers, Sequences, FiniteSets, TLC

VARIABLES
    pc,                         \* position of the single call of a helper
    args,                       \* arguments of that call
    ret,                        \* its result
    versions_fetcher_by_purl,   \* GitLabBasicImprover.versions_fetcher_by_purl
    fetchers_created,           \* number of VersionAPI objects constructed
    registry,                   \* versions the ecosystem registry has published
    reachable,                  \* whether the registry answers a request
    get_until_calls,            \* calls of VersionAPI.get_until, per package
    fetches,                    \* requests that reached the registry, per package
    calls,                      \* number of get_inferences calls made
    advisory_data,              \* argument of the last get_inferences call
    inferences,                 \* what that call yielded, in order
    yielded_by_range,           \* the same, split by the range that produced it
    valid_versions,             \* the version universe that call fetched
    raised,                     \* exception that left the call ("" if none)
    error_log,                  \* logger.error records of the last call
    threads,                    \* the get_inferences calls running in parallel
    site,                       \* the page requests.get answers with, per URL
    known_urls,                 \* updated_advisories: known_urls
    visited_urls,               \* updated_advisories: visited_urls
    unvisited_urls,             \* the URLs the for loop has still to take
    advisories,                 \* updated_advisories: advisories
    request_count               \* number of requests.get calls, per URL

helper_vars == <<pc, args, ret>>
improver_vars == <<versions_fetcher_by_purl, fetchers_created, registry,
                   reachable, get_until_calls, fetches, calls, advisory_data, inferences,
                   yielded_by_range, valid_versions, raised, error_log,
                   threads>>
crawler_vars == <<site, known_urls, visited_urls, unvisited_urls, advisories,
                  request_count>>
vars == <<helper_vars, improver_vars, crawler_vars>>

-----------------------------------------------------------------------------
(* Bounds of the model *)

MaxVersion == 3
MaxEntries == 3
MaxCalls == 2
MaxThreads == 2

Versions == 1..MaxVersion

-----------------------------------------------------------------------------
(* Values *)

None == [kind |-> "None"]

\* PackageURL(version=None): a package identity without a version
NoVersion == 0

\* until=None / date_published=None
NoDate == 0

PackageURL(type, namespace, name, version) ==
    [type |-> type, namespace |-> namespace, name |-> name, version |-> version]

\* A range that contains exactly the versions of S
VersionRange(S) == [kind |-> "VersionRange", members |-> S]

\* range.contains(version)
Contains(range, version) == version \in range.members

AffectedPackage(package, affected_version_range, fixed_version) ==
    [package |-> package,
     affected_version_range |-> affected_version_range,
     fixed_version |-> fixed_version]

Foo == PackageURL("maven", "org", "foo", NoVersion)
Bar == PackageURL("maven", "org", "bar", NoVersion)
FooCom == PackageURL("maven", "com", "foo", NoVersion)
GoFoo == PackageURL("golang", "", "foo", NoVersion)

\* A package of a type that has no entry in VERSION_API_CLASSES_BY_PACKAGE_TYPE
Generic == PackageURL("generic", "", "foo", NoVersion)

\* A package get_api_package_name has no registry name for
Unnamed == PackageURL("maven", "org", "", NoVersion)

WithVersion(purl, version) ==
    PackageURL(purl.type, purl.namespace, purl.name, version)

SeqRange(s) == {s[i] : i \in 1..Len(s)}

\* All sequences over S of length 1..n
RECURSIVE SeqsUpTo(_, _)
SeqsUpTo(S, n) ==
    IF n = 0 THEN {}
    ELSE LET shorter == SeqsUpTo(S, n - 1)
         IN  {<<x>> : x \in S} \cup shorter
             \cup {Append(s, x) : s \in shorter, x \in S}

-----------------------------------------------------------------------------
(* Nearest-patched matcher *)

\* The packages of S ascending by version, one per version
RECURSIVE SortedByVersion(_)
SortedByVersion(S) ==
    IF S = {} THEN <<>>
    ELSE LET least == CHOOSE p \in S : \A q \in S : p.version <= q.version
         IN  <<least>> \o SortedByVersion({q \in S : q.version # least.version})

\* bisect.bisect_right over a[lo..hi), 0-based as in Python: the number of
\* entries of the sorted sequence a whose version is <= version
RECURSIVE bisect_right(_, _, _, _)
bisect_right(a, version, lo, hi) ==
    IF lo >= hi THEN lo
    ELSE LET mid == (lo + hi) \div 2
         IN  IF version < a[mid + 1].version
             THEN bisect_right(a, version, lo, mid)
             ELSE bisect_right(a, version, mid + 1, hi)

\* The pair of one vulnerable package, given the sorted resolved packages
PatchedPair(vulnerable_package, sorted_resolved) ==
    LET patched_package_index ==
            bisect_right(sorted_resolved, vulnerable_package.version,
                         0, Len(sorted_resolved))
    IN  [vulnerable_package |-> vulnerable_package,
         patched_package |->
            IF patched_package_index < Len(sorted_resolved)
            THEN sorted_resolved[patched_package_index + 1]
            ELSE None]

\* Faulty variant: the resolved packages are searched from the top, so the greatest
\* resolved version is paired instead of the nearest one
nearest_patched_package_greatest(vulnerable_packages, resolved_packages) ==
    LET sorted_resolved == SortedByVersion(resolved_packages)
        sorted_vulnerable == SortedByVersion(vulnerable_packages)
    IN  [i \in 1..Len(sorted_vulnerable) |->
            [vulnerable_package |-> sorted_vulnerable[i],
             patched_package |->
                IF /\ Len(sorted_resolved) > 0
                   /\ sorted_resolved[Len(sorted_resolved)].version
                        > sorted_vulnerable[i].version
                THEN sorted_resolved[Len(sorted_resolved)]
                ELSE None]]

\* Faulty variant: a resolved package of the same version counts as its patch
\* (bisect_left in place of bisect_right)
nearest_patched_package_left(vulnerable_packages, resolved_packages) ==
    LET sorted_resolved == SortedByVersion(resolved_packages)
        sorted_vulnerable == SortedByVersion(vulnerable_packages)
        at_or_above(v) == {j \in 1..Len(sorted_resolved) :
                              sorted_resolved[j].version >= v}
    IN  [i \in 1..Len(sorted_vulnerable) |->
            [vulnerable_package |-> sorted_vulnerable[i],
             patched_package |->
                IF at_or_above(sorted_vulnerable[i].version) # {}
                THEN sorted_resolved[
                        CHOOSE j \in at_or_above(sorted_vulnerable[i].version) :
                            \A k \in at_or_above(sorted_vulnerable[i].version) :
                                j <= k]
                ELSE None]]

\* nearest_patched_package(vulnerable_packages, resolved_packages): one pair
\* per vulnerable package, in ascending order of the vulnerable version
nearest_patched_package(vulnerable_packages, resolved_packages) ==
    LET sorted_resolved == SortedByVersion(resolved_packages)
        sorted_vulnerable == SortedByVersion(vulnerable_packages)
    IN  [i \in 1..Len(sorted_vulnerable) |->
            PatchedPair(sorted_vulnerable[i], sorted_resolved)]

-----------------------------------------------------------------------------
(* Range resolver *)

\* Faulty variant: a version the range does not contain is dropped instead of being
\* reported as unaffected
RECURSIVE resolve_version_range_drop(_, _)
resolve_version_range_drop(affected_version_range, package_versions) ==
    IF affected_version_range = None \/ package_versions = <<>>
    THEN [affected |-> {}, unaffected |-> {}]
    ELSE LET rest == resolve_version_range_drop(affected_version_range,
                                                Tail(package_versions))
             version == Head(package_versions)
         IN  IF Contains(affected_version_range, version)
             THEN [rest EXCEPT !.affected = @ \cup {version}]
             ELSE rest

\* resolve_version_range(affected_version_range, package_versions): the
\* versions of package_versions the range contains, and the others
RECURSIVE resolve_version_range(_, _)
resolve_version_range(affected_version_range, package_versions) ==
    IF affected_version_range = None \/ package_versions = <<>>
    THEN [affected |-> {}, unaffected |-> {}]
    ELSE LET rest == resolve_version_range(affected_version_range,
                                           Tail(package_versions))
             version == Head(package_versions)
         IN  IF Contains(affected_version_range, version)
             THEN [rest EXCEPT !.affected = @ \cup {version}]
             ELSE [rest EXCEPT !.unaffected = @ \cup {version}]

-----------------------------------------------------------------------------
(* Affected-package merger *)

\* The identity of a package: its purl with the version stripped
Identity(purl) == WithVersion(purl, NoVersion)

\* s with x appended unless s holds it already
AppendNew(s, x) == IF x \in SeqRange(s) THEN s ELSE Append(s, x)

\* Faulty variant: an entry with no explicit range stands for no range
RangeOf_explicit_only(affected_package) ==
    affected_package.affected_version_range

\* The range an entry stands for: its explicit range, or the one-version
\* range of its fixed_version when it has no explicit range
RangeOf(affected_package) ==
    IF affected_package.affected_version_range # None
    THEN affected_package.affected_version_range
    ELSE IF affected_package.fixed_version # NoVersion
         THEN VersionRange({affected_package.fixed_version})
         ELSE None

RECURSIVE MergedRanges(_)
MergedRanges(affected_packages) ==
    IF affected_packages = <<>> THEN <<>>
    ELSE LET n == Len(affected_packages)
             front == MergedRanges(SubSeq(affected_packages, 1, n - 1))
             range == RangeOf(affected_packages[n])
         IN  IF range = None THEN front ELSE AppendNew(front, range)

RECURSIVE MergedFixedVersions(_)
MergedFixedVersions(affected_packages) ==
    IF affected_packages = <<>> THEN <<>>
    ELSE LET n == Len(affected_packages)
             front == MergedFixedVersions(SubSeq(affected_packages, 1, n - 1))
             fixed_version == affected_packages[n].fixed_version
         IN  IF fixed_version = NoVersion THEN front
             ELSE AppendNew(front, fixed_version)

\* Faulty variant: only the identity of the first two entries is compared
merge_first_two(affected_packages) ==
    LET purls == {Identity(affected_packages[i].package) :
                    i \in {j \in 1..Len(affected_packages) : j <= 2}}
    IN  IF Cardinality(purls) > 1
        THEN [raised |-> "UnMergeablePackageError"]
        ELSE [raised |-> "",
              purl |-> Identity(affected_packages[1].package),
              affected_version_ranges |-> MergedRanges(affected_packages),
              fixed_versions |-> MergedFixedVersions(affected_packages)]

\* AffectedPackage.merge(affected_packages), for a non-empty list
merge(affected_packages) ==
    LET purls == {Identity(affected_packages[i].package) :
                    i \in 1..Len(affected_packages)}
    IN  IF Cardinality(purls) > 1
        THEN [raised |-> "UnMergeablePackageError"]
        ELSE [raised |-> "",
              purl |-> Identity(affected_packages[1].package),
              affected_version_ranges |-> MergedRanges(affected_packages),
              fixed_versions |-> MergedFixedVersions(affected_packages)]

-----------------------------------------------------------------------------
(* Version-universe service *)

\* The date a version was released on: versions are released in order, one
\* per date
ReleaseDate(version) == version

\* The versions of S in ascending order
RECURSIVE Ascending(_)
Ascending(S) ==
    IF S = {} THEN <<>>
    ELSE LET least == CHOOSE v \in S : \A w \in S : v <= w
         IN  <<least>> \o Ascending(S \ {least})

\* get_api_package_name(package_url): the name the registry knows the
\* package by; None when the purl has no name
get_api_package_name(package_url) ==
    IF package_url.name = "" THEN None
    ELSE <<package_url.namespace, package_url.name>>

\* The version API class of each package type that has one
VERSION_API_CLASSES_BY_PACKAGE_TYPE ==
    [golang |-> "GoproxyVersionAPI", maven |-> "MavenVersionAPI"]

\* VERSION_API_CLASSES_BY_PACKAGE_TYPE[package_type], for a type in the table
VersionAPIClass(package_type) == VERSION_API_CLASSES_BY_PACKAGE_TYPE[package_type]

\* A freshly constructed VersionAPI object, the id-th one of the run; its
\* cache holds what it has fetched, per package name
VersionAPI(class, id) ==
    [kind |-> "VersionAPI", class |-> class, id |-> id,
     module_name_by_package_name |-> {},
     cache |-> {}]

\* versions_fetcher.get_until(package_name, until).valid_versions: the
\* published versions, only those released by `until` when it is given
get_until(published, until) ==
    Ascending({v \in published : until = NoDate \/ ReleaseDate(v) <= until})

\* What the fetcher has in its cache for the package
Cached(versions_fetcher, package_name) ==
    {c \in versions_fetcher.cache : c.package_name = package_name}

\* versions_fetcher.get_until(package_name, until): served from the fetcher's
\* cache when the package was fetched before, else by one request to the
\* registry, which answers with the published versions or, when it cannot be
\* reached, with none and an error record
fetcher_get_until(versions_fetcher, package_name, until) ==
    IF Cached(versions_fetcher, package_name) # {}
    THEN [valid_versions |->
              get_until((CHOOSE c \in Cached(versions_fetcher, package_name) : TRUE).versions,
                        until),
          versions_fetcher |-> versions_fetcher,
          requests |-> 0,
          error_log |-> <<>>]
    ELSE LET answer == IF reachable THEN registry ELSE {}
         IN  [valid_versions |-> get_until(answer, until),
              versions_fetcher |->
                  [versions_fetcher EXCEPT !.cache =
                      @ \cup {[package_name |-> package_name, versions |-> answer]}],
              requests |-> 1,
              error_log |-> IF reachable THEN <<>> ELSE <<"registry unreachable">>]

\* versions_fetcher.module_name_by_package_name.get(pkg_name, pkg_name)
ModuleName(versions_fetcher, pkg_name) ==
    LET known == {m \in versions_fetcher.module_name_by_package_name :
                    m.package_name = pkg_name}
    IN  IF known = {} THEN pkg_name ELSE (CHOOSE m \in known : TRUE).module_name

-----------------------------------------------------------------------------
(* GitLabBasicImprover *)

ImproverPurls == {Foo, GoFoo}

\* The keys versions_fetcher_by_purl is looked up with
FetcherKeys == ImproverPurls \cup {Generic, Unnamed}

\* Inference.from_advisory_data(advisory_data, confidence, affected_purls,
\* fixed_purl)
Inference(confidence, affected_purls, fixed_purl) ==
    [confidence |-> confidence,
     affected_purls |-> affected_purls,
     fixed_purl |-> fixed_purl]

\* What a get_package_versions call leaves behind
Fetched(versions, exception, log, fetchers, created, fetched, requests) ==
    [valid_versions |-> versions,
     raised |-> exception,
     error_log |-> log,
     fetchers |-> fetchers,
     created |-> created,
     fetched |-> fetched,
     requests |-> requests]

\* Faulty variant: the fetcher in the map is not looked up, a new one is stored on
\* every call
get_package_versions_fresh(package_url, until, fetchers, created) ==
    IF get_api_package_name(package_url) = None
    THEN Fetched(<<>>, "", <<"Could not get versions">>, fetchers, created, <<>>, 0)
    ELSE IF package_url.type \notin DOMAIN VERSION_API_CLASSES_BY_PACKAGE_TYPE
    THEN Fetched(<<>>, "KeyError", <<>>, fetchers, created, <<>>, 0)
    ELSE LET stored ==
                [fetchers EXCEPT ![package_url] =
                    VersionAPI(VersionAPIClass(package_url.type), created + 1)]
             response == fetcher_get_until(stored[package_url],
                                           get_api_package_name(package_url), until)
         IN  Fetched(response.valid_versions, "", response.error_log,
                     [stored EXCEPT ![package_url] = response.versions_fetcher],
                     created + 1, <<package_url>>, response.requests)

\* Faulty variant: a fetcher found in the map is taken to have nothing more to give
get_package_versions_consumed(package_url, until, fetchers, created) ==
    IF get_api_package_name(package_url) = None
    THEN Fetched(<<>>, "", <<"Could not get versions">>, fetchers, created, <<>>, 0)
    ELSE IF fetchers[package_url] # None /\ fetchers[package_url].cache # {}
    THEN Fetched(<<>>, "", <<>>, fetchers, created, <<>>, 0)
    ELSE LET stored ==
                IF fetchers[package_url] = None
                THEN [fetchers EXCEPT ![package_url] =
                        VersionAPI(VersionAPIClass(package_url.type), created + 1)]
                ELSE fetchers
             now_created ==
                IF fetchers[package_url] = None THEN created + 1 ELSE created
             response == fetcher_get_until(stored[package_url],
                                           get_api_package_name(package_url), until)
         IN  Fetched(response.valid_versions, "", response.error_log,
                     [stored EXCEPT ![package_url] = response.versions_fetcher],
                     now_created, <<package_url>>, response.requests)

\* get_package_versions(package_url, until), on the fetcher map `fetchers`
\* with `created` fetchers constructed so far
get_package_versions(package_url, until, fetchers, created) ==
    IF get_api_package_name(package_url) = None
    THEN Fetched(<<>>, "", <<"Could not get versions">>, fetchers, created, <<>>, 0)
    ELSE IF /\ fetchers[package_url] = None
            /\ package_url.type \notin DOMAIN VERSION_API_CLASSES_BY_PACKAGE_TYPE
    THEN Fetched(<<>>, "KeyError", <<>>, fetchers, created, <<>>, 0)
    ELSE LET stored ==
                IF fetchers[package_url] = None
                THEN [fetchers EXCEPT ![package_url] =
                        VersionAPI(VersionAPIClass(package_url.type), created + 1)]
                ELSE fetchers
             now_created ==
                IF fetchers[package_url] = None THEN created + 1 ELSE created
             response == fetcher_get_until(stored[package_url],
                                           get_api_package_name(package_url), until)
         IN  Fetched(response.valid_versions, "", response.error_log,
                     [stored EXCEPT ![package_url] = response.versions_fetcher],
                     now_created, <<package_url>>, response.requests)

\* Faulty variant: every pair starts a group of its own
GroupByPatched_ungrouped(pairs) ==
    [i \in 1..Len(pairs) |->
        [fixed_package |-> pairs[i].patched_package,
         affected_packages |-> <<pairs[i].vulnerable_package>>]]

\* unique_patched_packages_with_affected_packages: the pairs grouped by
\* patched package, groups in order of first appearance
RECURSIVE GroupByPatched(_)
GroupByPatched(pairs) ==
    IF pairs = <<>> THEN <<>>
    ELSE LET n == Len(pairs)
             front == GroupByPatched(SubSeq(pairs, 1, n - 1))
             package == pairs[n]
             at == {i \in 1..Len(front) :
                        front[i].fixed_package = package.patched_package}
         IN  IF at = {}
             THEN Append(front,
                    [fixed_package |-> package.patched_package,
                     affected_packages |-> <<package.vulnerable_package>>])
             ELSE [front EXCEPT ![CHOOSE i \in at : TRUE].affected_packages =
                        Append(@, package.vulnerable_package)]

\* Faulty variant: the versions with no patched package are not reported
InferencesForRange_fixed_only(purl, pkg_name, affected_version_range, package_versions) ==
    LET resolved == resolve_version_range(affected_version_range, package_versions)
        affected_purls ==
            {PackageURL(purl.type, purl.namespace, pkg_name, v) : v \in resolved.affected}
        unaffected_purls ==
            {PackageURL(purl.type, purl.namespace, pkg_name, v) : v \in resolved.unaffected}
        groups == GroupByPatched(nearest_patched_package(affected_purls, unaffected_purls))
    IN  SelectSeq([i \in 1..Len(groups) |->
                      Inference(100, groups[i].affected_packages, groups[i].fixed_package)],
                  LAMBDA inference : inference.fixed_purl # None)

\* Faulty variant: every fetched version is offered as a patched package
InferencesForRange_all_resolved(purl, pkg_name, affected_version_range, package_versions) ==
    LET resolved == resolve_version_range(affected_version_range, package_versions)
        affected_purls ==
            {PackageURL(purl.type, purl.namespace, pkg_name, v) : v \in resolved.affected}
        unaffected_purls ==
            {PackageURL(purl.type, purl.namespace, pkg_name, v) :
                v \in resolved.affected \cup resolved.unaffected}
        groups == GroupByPatched(nearest_patched_package(affected_purls, unaffected_purls))
    IN  [i \in 1..Len(groups) |->
            Inference(100, groups[i].affected_packages, groups[i].fixed_package)]

\* Faulty variant: a range that resolves to no affected version yields a placeholder
\* of no confidence
InferencesForRange_placeholder(purl, pkg_name, affected_version_range, package_versions) ==
    LET resolved == resolve_version_range(affected_version_range, package_versions)
        affected_purls ==
            {PackageURL(purl.type, purl.namespace, pkg_name, v) : v \in resolved.affected}
        unaffected_purls ==
            {PackageURL(purl.type, purl.namespace, pkg_name, v) : v \in resolved.unaffected}
        groups == GroupByPatched(nearest_patched_package(affected_purls, unaffected_purls))
    IN  IF resolved.affected = {}
        THEN <<Inference(0, <<>>, None)>>
        ELSE [i \in 1..Len(groups) |->
                Inference(100, groups[i].affected_packages, groups[i].fixed_package)]

\* Faulty variant: a range that matches no fetched version is taken to affect every
\* version it names
InferencesForRange_guess(purl, pkg_name, affected_version_range, package_versions) ==
    LET resolved == resolve_version_range(affected_version_range, package_versions)
        aff_vers == IF resolved.affected = {} /\ affected_version_range # None
                    THEN affected_version_range.members
                    ELSE resolved.affected
        affected_purls ==
            {PackageURL(purl.type, purl.namespace, pkg_name, v) : v \in aff_vers}
        unaffected_purls ==
            {PackageURL(purl.type, purl.namespace, pkg_name, v) : v \in resolved.unaffected}
        groups == GroupByPatched(nearest_patched_package(affected_purls, unaffected_purls))
    IN  [i \in 1..Len(groups) |->
            Inference(100, groups[i].affected_packages, groups[i].fixed_package)]

\* One turn of the loop over affected_version_ranges: the inferences yielded
\* for one range
InferencesForRange(purl, pkg_name, affected_version_range, package_versions) ==
    LET resolved == resolve_version_range(affected_version_range, package_versions)
        affected_purls ==
            {PackageURL(purl.type, purl.namespace, pkg_name, v) : v \in resolved.affected}
        unaffected_purls ==
            {PackageURL(purl.type, purl.namespace, pkg_name, v) : v \in resolved.unaffected}
        groups == GroupByPatched(nearest_patched_package(affected_purls, unaffected_purls))
    IN  [i \in 1..Len(groups) |->
            Inference(100, groups[i].affected_packages, groups[i].fixed_package)]

\* The concatenation of the sequences of a sequence
RECURSIVE Flatten(_)
Flatten(ss) == IF ss = <<>> THEN <<>> ELSE Head(ss) \o Flatten(Tail(ss))

\* Faulty variant: the advisory's publication date is not handed to the fetcher
Until_unbounded(advisory) == NoDate

\* The `until` argument get_inferences hands to get_package_versions
Until(advisory) == advisory.date_published

\* What get_inferences does before it touches any state, when the advisory
\* has no affected package
Outcome(yielded, exception, log, fetchers, created, fetched, versions) ==
    [yielded_by_range |-> yielded,
     raised |-> exception,
     error_log |-> log,
     fetchers |-> fetchers,
     created |-> created,
     fetched |-> fetched,
     requests |-> 0,
     valid_versions |-> versions]

\* Faulty variant: the merge error is not caught
OnUnMergeable_raise(fetchers, created) ==
    Outcome(<<>>, "UnMergeablePackageError", <<>>, fetchers, created, <<>>, <<>>)

\* Faulty variant: the merge error is swallowed without a log record
OnUnMergeable_silent(fetchers, created) ==
    Outcome(<<>>, "", <<>>, fetchers, created, <<>>, <<>>)

\* except UnMergeablePackageError: log the error and yield nothing
OnUnMergeable(fetchers, created) ==
    Outcome(<<>>, "", <<"Cannot merge with different purls">>,
            fetchers, created, <<>>, <<>>)

\* Faulty variant: the golang branch stores a new fetcher on every call
GolangFetchers_replace(purl, fetchers, created) ==
    IF purl.type = "golang"
    THEN [fetchers |-> [fetchers EXCEPT ![purl] =
                            VersionAPI("GoproxyVersionAPI", created + 1)],
          created |-> created + 1]
    ELSE [fetchers |-> fetchers, created |-> created]

\* The golang branch: the fetcher of the purl, created and stored when the
\* map has none
GolangFetchers(purl, fetchers, created) ==
    IF purl.type = "golang" /\ fetchers[purl] = None
    THEN [fetchers |-> [fetchers EXCEPT ![purl] =
                            VersionAPI("GoproxyVersionAPI", created + 1)],
          created |-> created + 1]
    ELSE [fetchers |-> fetchers, created |-> created]

\* get_inferences(advisory), run to the end of its iteration, on the fetcher
\* map `fetchers`
GetInferences(advisory, fetchers, created) ==
    IF advisory.affected_packages = <<>>
    THEN Outcome(<<>>, "", <<>>, fetchers, created, <<>>, <<>>)
    ELSE LET merged == merge(advisory.affected_packages)
         IN  IF merged.raised = "UnMergeablePackageError"
             THEN OnUnMergeable(fetchers, created)
             ELSE LET purl == merged.purl
                      golang == GolangFetchers(purl, fetchers, created)
                      pkg_name ==
                        IF purl.type = "golang"
                        THEN ModuleName(golang.fetchers[purl], purl.name)
                        ELSE purl.name
                      fetch == get_package_versions(
                                    purl, Until(advisory),
                                    golang.fetchers, golang.created)
                      ranges == merged.affected_version_ranges
                  IN  IF fetch.raised # ""
                      THEN Outcome(<<>>, fetch.raised, fetch.error_log,
                                   fetch.fetchers, fetch.created, <<>>, <<>>)
                      ELSE [Outcome(
                              [k \in 1..Len(ranges) |->
                                  [affected_version_range |-> ranges[k],
                                   inferences |->
                                      InferencesForRange(purl, pkg_name, ranges[k],
                                                         fetch.valid_versions)]],
                              "", fetch.error_log,
                              fetch.fetchers, fetch.created,
                              fetch.fetched, fetch.valid_versions)
                            EXCEPT !.requests = fetch.requests]

\* The inferences a call yields, in order
Yielded(outcome) ==
    Flatten([k \in 1..Len(outcome.yielded_by_range) |->
                outcome.yielded_by_range[k].inferences])

\* get_inferences(advisory), consumed to its end by the caller
get_inferences(advisory) ==
    \E outcome \in {GetInferences(advisory, versions_fetcher_by_purl, fetchers_created)} :
        /\ advisory_data' = advisory
        /\ yielded_by_range' = outcome.yielded_by_range
        /\ inferences' = Yielded(outcome)
        /\ valid_versions' = outcome.valid_versions
        /\ raised' = outcome.raised
        /\ error_log' = outcome.error_log
        /\ versions_fetcher_by_purl' = outcome.fetchers
        /\ fetchers_created' = outcome.created
        /\ get_until_calls' =
                [purl \in FetcherKeys |->
                    IF purl \in SeqRange(outcome.fetched)
                    THEN get_until_calls[purl] + 1
                    ELSE get_until_calls[purl]]
        /\ fetches' =
                [purl \in FetcherKeys |->
                    IF purl \in SeqRange(outcome.fetched)
                    THEN fetches[purl] + outcome.requests
                    ELSE fetches[purl]]
        /\ calls' = calls + 1
        /\ UNCHANGED <<registry, reachable, threads>>

-----------------------------------------------------------------------------
(* get_inferences calls in parallel on one improver: each thread runs the
   statements of get_inferences and get_package_versions that read or write
   versions_fetcher_by_purl one at a time *)

Threads == 1..MaxThreads

\* A thread that is not in a call
Idle == [pc |-> "idle", purl |-> None, versions_fetcher |-> None,
         constructed |-> 0, valid_versions |-> <<>>]

\* The threads that have a request to the registry in flight for the key
InFlight(purl) == {t \in Threads : threads[t].pc = "fetching" /\ threads[t].purl = purl}

\* The number of fetchers constructed and stored under the key
Stored(purl) ==
    LET RECURSIVE Sum(_)
        Sum(T) == IF T = {} THEN 0
                  ELSE LET t == CHOOSE t \in T : TRUE
                       IN  (IF threads[t].purl = purl THEN threads[t].constructed ELSE 0)
                           + Sum(T \ {t})
    IN  Sum(Threads)

\* get_inferences(advisory_data) is entered with an advisory of the package
Start(t, purl) ==
    /\ threads[t].pc = "idle"
    /\ threads' = [threads EXCEPT ![t] =
            [Idle EXCEPT !.purl = purl,
                         !.pc = IF purl.type = "golang" THEN "golang_get"
                                ELSE "versions_get"]]
    /\ UNCHANGED <<versions_fetcher_by_purl, fetchers_created, fetches, get_until_calls>>

\* versions_fetcher = self.versions_fetcher_by_purl.get(purl)
GolangGet(t) ==
    /\ threads[t].pc = "golang_get"
    /\ threads' = [threads EXCEPT
            ![t].versions_fetcher = versions_fetcher_by_purl[threads[t].purl],
            ![t].pc = IF versions_fetcher_by_purl[threads[t].purl] = None
                      THEN "golang_set" ELSE "versions_get"]
    /\ UNCHANGED <<versions_fetcher_by_purl, fetchers_created, fetches, get_until_calls>>

\* versions_fetcher = GoproxyVersionAPI()
\* self.versions_fetcher_by_purl[purl] = versions_fetcher
GolangSet(t) ==
    /\ threads[t].pc = "golang_set"
    /\ fetchers_created' = fetchers_created + 1
    /\ versions_fetcher_by_purl' =
            [versions_fetcher_by_purl EXCEPT ![threads[t].purl] =
                VersionAPI("GoproxyVersionAPI", fetchers_created + 1)]
    /\ threads' = [threads EXCEPT
            ![t].versions_fetcher = VersionAPI("GoproxyVersionAPI", fetchers_created + 1),
            ![t].constructed = @ + 1,
            ![t].pc = "versions_get"]
    /\ UNCHANGED <<fetches, get_until_calls>>

\* versions_fetcher = self.versions_fetcher_by_purl.get(package_url)
VersionsGet(t) ==
    /\ threads[t].pc = "versions_get"
    /\ threads' = [threads EXCEPT
            ![t].versions_fetcher = versions_fetcher_by_purl[threads[t].purl],
            ![t].pc = IF versions_fetcher_by_purl[threads[t].purl] = None
                      THEN "versions_set" ELSE "versions_read"]
    /\ UNCHANGED <<versions_fetcher_by_purl, fetchers_created, fetches, get_until_calls>>

\* self.versions_fetcher_by_purl[package_url] = versions_fetcher()
VersionsSet(t) ==
    /\ threads[t].pc = "versions_set"
    /\ fetchers_created' = fetchers_created + 1
    /\ versions_fetcher_by_purl' =
            [versions_fetcher_by_purl EXCEPT ![threads[t].purl] =
                VersionAPI(VersionAPIClass(threads[t].purl.type), fetchers_created + 1)]
    /\ threads' = [threads EXCEPT
            ![t].constructed = @ + 1,
            ![t].pc = "versions_read"]
    /\ UNCHANGED <<fetches, get_until_calls>>

\* versions_fetcher = self.versions_fetcher_by_purl[package_url]
VersionsRead(t) ==
    /\ threads[t].pc = "versions_read"
    /\ threads' = [threads EXCEPT
            ![t].versions_fetcher = versions_fetcher_by_purl[threads[t].purl],
            ![t].pc = "get_until"]
    /\ UNCHANGED <<versions_fetcher_by_purl, fetchers_created, fetches, get_until_calls>>

\* The fetcher object the thread holds, in its present state: the one in the
\* map when that is the thread's own, else the thread's, which no other thread
\* has touched
Held(t) ==
    LET in_map == versions_fetcher_by_purl[threads[t].purl]
    IN  IF in_map # None /\ in_map.id = threads[t].versions_fetcher.id
        THEN in_map
        ELSE threads[t].versions_fetcher

\* versions_fetcher.get_until(package_name=api_name, until=until) is called:
\* answered from the fetcher's cache, or a request to the registry starts
GetUntilCall(t) ==
    /\ threads[t].pc = "get_until"
    /\ get_until_calls' = [get_until_calls EXCEPT ![threads[t].purl] = @ + 1]
    /\ LET package_name == get_api_package_name(threads[t].purl)
           cached == Cached(Held(t), package_name)
       IN  IF cached # {}
           THEN /\ threads' = [threads EXCEPT
                        ![t].valid_versions =
                            get_until((CHOOSE c \in cached : TRUE).versions, NoDate),
                        ![t].pc = "done"]
                /\ UNCHANGED fetches
           ELSE /\ threads' = [threads EXCEPT ![t].pc = "fetching"]
                /\ fetches' = [fetches EXCEPT ![threads[t].purl] = @ + 1]
    /\ UNCHANGED <<versions_fetcher_by_purl, fetchers_created>>

\* The registry answers the request; the fetcher keeps the answer, and
\* get_package_versions returns it
GetUntilReturn(t) ==
    /\ threads[t].pc = "fetching"
    /\ LET package_name == get_api_package_name(threads[t].purl)
           answer == IF reachable THEN registry ELSE {}
           kept == [Held(t) EXCEPT !.cache =
                        @ \cup {[package_name |-> package_name, versions |-> answer]}]
           in_map == versions_fetcher_by_purl[threads[t].purl]
       IN  /\ versions_fetcher_by_purl' =
                IF in_map # None /\ in_map.id = kept.id
                THEN [versions_fetcher_by_purl EXCEPT ![threads[t].purl] = kept]
                ELSE versions_fetcher_by_purl
           /\ threads' = [threads EXCEPT
                    ![t].versions_fetcher = kept,
                    ![t].valid_versions = get_until(answer, NoDate),
                    ![t].pc = "done"]
    /\ UNCHANGED <<fetchers_created, fetches, get_until_calls>>

\* What no thread step touches
ThreadFrame ==
    UNCHANGED <<helper_vars, registry, reachable, calls, advisory_data,
                inferences, yielded_by_range, valid_versions, raised, error_log,
                crawler_vars>>

\* One statement of one thread
ParallelInferences ==
    \/ \E t \in Threads, purl \in ImproverPurls : Start(t, purl) /\ ThreadFrame
    \/ \E t \in Threads : GolangGet(t) /\ ThreadFrame
    \/ \E t \in Threads : GolangSet(t) /\ ThreadFrame
    \/ \E t \in Threads : VersionsGet(t) /\ ThreadFrame
    \/ \E t \in Threads : VersionsSet(t) /\ ThreadFrame
    \/ \E t \in Threads : VersionsRead(t) /\ ThreadFrame
    \/ \E t \in Threads : GetUntilCall(t) /\ ThreadFrame
    \/ \E t \in Threads : GetUntilReturn(t) /\ ThreadFrame

-----------------------------------------------------------------------------
(* GitLabAPIImporter: a YAML record parsed into an AdvisoryData *)

PURL_TYPE_BY_GITLAB_SCHEME ==
    [gem |-> "gem", go |-> "golang", maven |-> "maven", npm |-> "npm",
     nuget |-> "nuget", pypi |-> "pypi", packagist |-> "composer"]

not_empty(value) == value # ""

\* The strings "/".join makes of two or more of the segments used below
JoinedPaths ==
    (<<"github", "user">> :> "github/user") @@ (<<"example.com", "foo">> :> "example.com/foo")

\* "/".join(parts)
Join(parts) ==
    IF parts = <<>> THEN ""
    ELSE IF Len(parts) = 1 THEN parts[1]
    ELSE JoinedPaths[parts]

\* What a function call ends with: a value returned or an exception raised,
\* and the logger.error records it wrote
Returned(value, log) == [raised |-> "", value |-> value, error_log |-> log]
Raised(exception, log) == [raised |-> exception, value |-> None, error_log |-> log]

\* get_purl(package_slug), the slug given as its segments between slashes
get_purl(package_slug) ==
    LET parts == SelectSeq(package_slug, not_empty)
    IN  IF parts = <<>> THEN Raised("IndexError", <<>>)
        ELSE IF parts[1] \notin DOMAIN PURL_TYPE_BY_GITLAB_SCHEME
        THEN Raised("KeyError", <<>>)
        ELSE LET purl_type == PURL_TYPE_BY_GITLAB_SCHEME[parts[1]]
             IN  IF parts[1] = "go"
                 THEN IF Len(parts) = 1
                      THEN Raised("ValueError", <<>>)
                      ELSE Returned(PackageURL(purl_type, "", Join(Tail(parts)), NoVersion),
                                    <<>>)
                 ELSE IF Len(parts) = 2
                 THEN Returned(PackageURL(purl_type, "", parts[2], NoVersion), <<>>)
                 ELSE IF Len(parts) >= 3
                 THEN Returned(PackageURL(purl_type,
                                          Join(SubSeq(parts, 2, Len(parts) - 1)),
                                          parts[Len(parts)], NoVersion),
                               <<>>)
                 ELSE Returned(None, <<"get_purl: package_slug can not be parsed">>)

\* Faulty variant: an entry carries the fixed version alone
extract_affected_packages_fixed_only(affected_version_range, fixed_versions, purl) ==
    [i \in 1..Len(fixed_versions) |->
        AffectedPackage(purl, None, fixed_versions[i])]

\* Faulty variant: only the first fixed version gives an entry
extract_affected_packages_first(affected_version_range, fixed_versions, purl) ==
    <<AffectedPackage(purl, affected_version_range, fixed_versions[1])>>

\* extract_affected_packages(affected_version_range, fixed_versions, purl):
\* one entry per fixed version, each with the range as well
extract_affected_packages(affected_version_range, fixed_versions, purl) ==
    [i \in 1..Len(fixed_versions) |->
        AffectedPackage(purl, affected_version_range, fixed_versions[i])]

AdvisoryData(aliases, summary, references, date_published, affected_packages) ==
    [aliases |-> aliases,
     summary |-> summary,
     references |-> references,
     date_published |-> date_published,
     affected_packages |-> affected_packages]

\* gitlab_advisory.get(key) is not None
Has(gitlab_advisory, key) == key \in gitlab_advisory.keys

\* gitlab_advisory.get(key): the value of the key, None when the record has
\* no such key
Get(gitlab_advisory, key) ==
    IF key \in gitlab_advisory.keys THEN gitlab_advisory[key] ELSE None

\* Faulty variant: the first fixed version that does not parse ends the loop
RECURSIVE ParsedFixedVersions_until_error(_)
ParsedFixedVersions_until_error(fixed_versions) ==
    IF fixed_versions = <<>> THEN <<>>
    ELSE IF Head(fixed_versions).parsable
         THEN <<Head(fixed_versions).version>>
              \o ParsedFixedVersions_until_error(Tail(fixed_versions))
         ELSE <<>>

\* The versions of a fixed_versions list that version_class accepts, in order
RECURSIVE ParsedFixedVersions(_)
ParsedFixedVersions(fixed_versions) ==
    IF fixed_versions = <<>> THEN <<>>
    ELSE IF Head(fixed_versions).parsable
         THEN <<Head(fixed_versions).version>> \o ParsedFixedVersions(Tail(fixed_versions))
         ELSE ParsedFixedVersions(Tail(fixed_versions))

\* The logger.error records of the fixed versions version_class rejects
RECURSIVE FixedVersionErrors(_)
FixedVersionErrors(fixed_versions) ==
    IF fixed_versions = <<>> THEN <<>>
    ELSE IF Head(fixed_versions).parsable
         THEN FixedVersionErrors(Tail(fixed_versions))
         ELSE <<"parse_yaml_file: fixed_version is not parsable">>
              \o FixedVersionErrors(Tail(fixed_versions))

\* The tail of parse_yaml_file, from the range on: the entries of a record
\* whose purl is valid
AffectedPackagesOf(gitlab_advisory, purl) ==
    LET affected_range == gitlab_advisory.affected_range
        given == Has(gitlab_advisory, "affected_range") /\ affected_range.text # ""
        affected_version_range ==
            IF given /\ affected_range.parsable
            THEN VersionRange(affected_range.members)
            ELSE None
        range_log ==
            IF given /\ ~ affected_range.parsable
            THEN <<"parse_yaml_file: affected_range is not parsable">>
            ELSE <<>>
        fixed_versions ==
            IF Has(gitlab_advisory, "fixed_versions")
            THEN gitlab_advisory.fixed_versions
            ELSE <<>>
        parsed_fixed_versions == ParsedFixedVersions(fixed_versions)
    IN  [affected_packages |->
            IF parsed_fixed_versions # <<>>
            THEN extract_affected_packages(affected_version_range,
                                           parsed_fixed_versions, purl)
            ELSE IF affected_version_range = None
                 THEN <<>>
                 ELSE <<AffectedPackage(purl, affected_version_range, NoVersion)>>,
         error_log |-> range_log \o FixedVersionErrors(fixed_versions)]

\* parse_yaml_file(file), on the value yaml.safe_load gave for the file
parse_yaml_file(gitlab_advisory) ==
    IF ~ gitlab_advisory.is_dict
    THEN Returned(None, <<"parse_yaml_file: yaml_file is not of type dict">>)
    ELSE IF ~ Has(gitlab_advisory, "title") \/ ~ Has(gitlab_advisory, "description")
    THEN Raised("TypeError", <<>>)
    ELSE IF ~ Has(gitlab_advisory, "urls")
    THEN Raised("TypeError", <<>>)
    ELSE IF ~ Has(gitlab_advisory, "pubdate")
    THEN Raised("TypeError", <<>>)
    ELSE IF ~ gitlab_advisory.pubdate.parsable
    THEN Raised("ParserError", <<>>)
    ELSE IF ~ Has(gitlab_advisory, "package_slug")
    THEN Raised("AttributeError", <<>>)
    ELSE LET aliases == Get(gitlab_advisory, "identifiers")
             summary == <<gitlab_advisory.title, gitlab_advisory.description>>
             references == gitlab_advisory.urls
             date_published == gitlab_advisory.pubdate.date
             purl == get_purl(gitlab_advisory.package_slug)
         IN  IF purl.raised # "" THEN purl
             ELSE IF purl.value = None
             THEN Returned(AdvisoryData(aliases, summary, references, date_published, <<>>),
                           purl.error_log \o <<"parse_yaml_file: purl is not valid">>)
             ELSE LET entries == AffectedPackagesOf(gitlab_advisory, purl.value)
                  IN  Returned(AdvisoryData(aliases, summary, references, date_published,
                                            entries.affected_packages),
                               entries.error_log)

-----------------------------------------------------------------------------
(* Inputs *)

Advisory(affected_packages, date_published) ==
    [affected_packages |-> affected_packages, date_published |-> date_published]

\* date_published: absent, or one of the dates a version was released on
Dates == {NoDate} \cup {ReleaseDate(v) : v \in Versions}

MatcherPackages == [vulnerable_packages : {{WithVersion(Foo, v) : v \in S} : S \in SUBSET Versions},
                    resolved_packages : {{WithVersion(Foo, v) : v \in S} : S \in SUBSET Versions}]

\* The sequences that list every element of S once
RECURSIVE Orderings(_)
Orderings(S) ==
    IF S = {} THEN {<<>>}
    ELSE UNION {{<<x>> \o s : s \in Orderings(S \ {x})} : x \in S}

ResolverInputs ==
    [affected_version_range : {None} \cup {VersionRange(S) : S \in SUBSET Versions},
     package_versions : UNION {Orderings(S) : S \in SUBSET Versions}]

\* Entries of several identities, with and without a version on the package,
\* carrying a range or a fixed version
MergeEntries ==
    {AffectedPackage(package, VersionRange({1}), NoVersion) :
        package \in {Foo, WithVersion(Foo, 1), Bar, FooCom, GoFoo}}
    \cup {AffectedPackage(package, None, MaxVersion) :
        package \in {Foo, WithVersion(Foo, 1), Bar, FooCom, GoFoo}}

MergeInputs == SeqsUpTo(MergeEntries, MaxEntries)

\* Entries of one package as an importer builds them: a range, a fixed
\* version, or both
EmitEntries(purl) ==
    {AffectedPackage(purl, range, fixed_version) :
        range \in {None} \cup {VersionRange(S) : S \in SUBSET Versions},
        fixed_version \in {NoVersion, MaxVersion}}
    \ {AffectedPackage(purl, None, NoVersion)}

\* Advisories of one package with no, one or two entries
EmitAdvisories ==
    {Advisory(affected_packages, date_published) :
        affected_packages \in
            {<<>>} \cup UNION {SeqsUpTo(EmitEntries(purl), 2) : purl \in ImproverPurls},
        date_published \in Dates}

BatchEntries ==
    {AffectedPackage(purl, VersionRange({v \in Versions : v < MaxVersion}), NoVersion) :
        purl \in ImproverPurls}
    \cup {AffectedPackage(purl, None, MaxVersion) : purl \in ImproverPurls}

\* Advisories of a batch: no, one or two entries, of one package or of two,
\* undated or published on the first release date
BatchAdvisories ==
    {Advisory(affected_packages, date_published) :
        affected_packages \in {<<>>} \cup SeqsUpTo(BatchEntries, 2),
        date_published \in {NoDate, ReleaseDate(1)}}

\* Advisories of one entry, of a package whose versions can be looked up or
\* of one whose lookup fails
LookupAdvisories ==
    {Advisory(<<AffectedPackage(purl, VersionRange(S), NoVersion)>>, date_published) :
        purl \in FetcherKeys, S \in SUBSET Versions, date_published \in Dates}

\* Advisories that are run more than once: those of a batch and those of one
\* entry of any shape
RepeatAdvisories ==
    BatchAdvisories
    \cup {Advisory(<<entry>>, date_published) :
            entry \in UNION {EmitEntries(purl) : purl \in ImproverPurls},
            date_published \in Dates}

\* package_slug values, as their segments between slashes: well-formed
\* ones, one with doubled slashes, and ones get_purl cannot turn into a purl
Slugs ==
    {<<"maven", "org", "foo">>, <<"go", "foo">>, <<"pypi", "foo">>,
     <<"", "maven", "org", "", "foo">>, <<"nuget", "github", "user", "foo">>,
     <<"go", "example.com", "foo">>,
     <<"maven">>, <<"go">>, <<"">>, <<"conan", "foo">>}

\* affected_range strings: empty, not a range, or a range of versions
AffectedRangeStrings ==
    {[text |-> "", parsable |-> FALSE, members |-> {}],
     [text |-> "not a range", parsable |-> FALSE, members |-> {}],
     [text |-> "=1", parsable |-> TRUE, members |-> {1}],
     [text |-> "<max", parsable |-> TRUE, members |-> {v \in Versions : v < MaxVersion}]}

\* entries of fixed_versions: version strings, or strings version_class rejects
FixedVersionStrings ==
    {[parsable |-> TRUE, version |-> v] : v \in {MaxVersion - 1, MaxVersion}}
    \cup {[parsable |-> FALSE, version |-> NoVersion]}

\* pubdate strings: a date, or a string that is not one
PubDates ==
    {[parsable |-> TRUE, date |-> ReleaseDate(1)], [parsable |-> FALSE, date |-> NoDate]}

\* The keys a record can have
YamlKeys == {"identifiers", "title", "description", "urls", "pubdate",
             "package_slug", "affected_range", "fixed_versions"}

\* The key sets of the records: all keys, or all but one, or all but the two
\* version keys
YamlKeySets ==
    {YamlKeys} \cup {YamlKeys \ {key} : key \in YamlKeys}
    \cup {YamlKeys \ {"affected_range", "fixed_versions"}}

\* What yaml.safe_load gives for a file: a mapping with some of the keys, or
\* something that is no mapping
YamlRecords ==
    {[is_dict |-> is_dict, keys |-> keys,
      identifiers |-> <<"GMS-1">>, title |-> "title", description |-> "description",
      urls |-> <<"https://example.com/1">>,
      pubdate |-> pubdate, package_slug |-> package_slug,
      affected_range |-> affected_range, fixed_versions |-> fixed_versions] :
        is_dict \in BOOLEAN, keys \in YamlKeySets,
        pubdate \in PubDates, package_slug \in Slugs,
        affected_range \in AffectedRangeStrings,
        fixed_versions \in {<<>>} \cup SeqsUpTo(FixedVersionStrings, 2)}

-----------------------------------------------------------------------------
(* Specifications *)

\* GitLabBasicImprover(): no fetcher yet
Constructed ==
    /\ versions_fetcher_by_purl = [purl \in FetcherKeys |-> None]
    /\ fetchers_created = 0
    /\ get_until_calls = [purl \in FetcherKeys |-> 0]
    /\ fetches = [purl \in FetcherKeys |-> 0]
    /\ calls = 0
    /\ advisory_data = None
    /\ inferences = <<>>
    /\ yielded_by_range = <<>>
    /\ valid_versions = <<>>
    /\ raised = ""
    /\ error_log = <<>>
    /\ threads = [t \in Threads |-> Idle]

\* No PostgreSQLImporter is at work
Uncrawled ==
    /\ site = <<>>
    /\ known_urls = {}
    /\ visited_urls = {}
    /\ unvisited_urls = {}
    /\ advisories = <<>>
    /\ request_count = <<>>

HelperCall(inputs) ==
    /\ pc = "call"
    /\ args \in inputs
    /\ ret = None
    /\ Constructed
    /\ Uncrawled
    /\ registry = {}
    /\ reachable = TRUE

NearestPatchedPackage ==
    /\ pc = "call"
    /\ ret' = nearest_patched_package(args.vulnerable_packages, args.resolved_packages)
    /\ pc' = "return"
    /\ UNCHANGED <<args, improver_vars, crawler_vars>>

ResolveVersionRange ==
    /\ pc = "call"
    /\ ret' = resolve_version_range(args.affected_version_range, args.package_versions)
    /\ pc' = "return"
    /\ UNCHANGED <<args, improver_vars, crawler_vars>>

Merge ==
    /\ pc = "call"
    /\ ret' = merge(args)
    /\ pc' = "return"
    /\ UNCHANGED <<args, improver_vars, crawler_vars>>

ParseYamlFile ==
    /\ pc = "call"
    /\ ret' = parse_yaml_file(args)
    /\ pc' = "return"
    /\ UNCHANGED <<args, improver_vars, crawler_vars>>

\* One get_inferences call on a fresh improver
EmitInferences ==
    /\ pc = "call"
    /\ get_inferences(args)
    /\ pc' = "return"
    /\ UNCHANGED <<args, ret, crawler_vars>>

\* get_inferences on the same advisory once more, on the same improver; ret
\* keeps what the call before yielded
RepeatInferences ==
    /\ pc = "call"
    /\ calls < MaxCalls
    /\ get_inferences(args)
    /\ ret' = inferences
    /\ pc' = IF calls + 1 = MaxCalls THEN "return" ELSE "call"
    /\ UNCHANGED <<args, crawler_vars>>

\* The next advisory of a batch, on the same improver
ImproveAdvisory ==
    /\ calls < MaxCalls
    /\ \E advisory \in BatchAdvisories : get_inferences(advisory)
    /\ UNCHANGED <<helper_vars, crawler_vars>>

InitMatcher == HelperCall(MatcherPackages)
SpecMatcher == InitMatcher /\ [][NearestPatchedPackage]_vars

InitResolver == HelperCall(ResolverInputs)
SpecResolver == InitResolver /\ [][ResolveVersionRange]_vars

InitMerge == HelperCall(MergeInputs)
SpecMerge == InitMerge /\ [][Merge]_vars

InitParse == HelperCall(YamlRecords)
SpecParse == InitParse /\ [][ParseYamlFile]_vars

InitEmit ==
    /\ pc = "call"
    /\ args \in EmitAdvisories
    /\ ret = None
    /\ Constructed
    /\ Uncrawled
    /\ registry \in SUBSET Versions
    /\ reachable = TRUE
SpecEmit == InitEmit /\ [][EmitInferences]_vars

\* One get_inferences call, the registry reachable or not
InitLookup ==
    /\ pc = "call"
    /\ args \in LookupAdvisories
    /\ ret = None
    /\ Constructed
    /\ Uncrawled
    /\ registry \in SUBSET Versions
    /\ reachable \in BOOLEAN
SpecLookup == InitLookup /\ [][EmitInferences]_vars

\* The same advisory run MaxCalls times on one improver
InitRepeat ==
    /\ pc = "call"
    /\ args \in RepeatAdvisories
    /\ ret = None
    /\ Constructed
    /\ Uncrawled
    /\ registry \in SUBSET Versions
    /\ reachable = TRUE
SpecRepeat == InitRepeat /\ [][RepeatInferences]_vars

\* Advisories improved in parallel on one improver
InitParallel ==
    /\ pc = "idle"
    /\ args = None
    /\ ret = None
    /\ Constructed
    /\ Uncrawled
    /\ registry \in {{}, Versions}
    /\ reachable = TRUE
SpecParallel == InitParallel /\ [][ParallelInferences]_vars

Init ==
    /\ pc = "idle"
    /\ args = None
    /\ ret = None
    /\ Constructed
    /\ Uncrawled
    /\ registry \in SUBSET Versions
    /\ reachable = TRUE
Next == ImproveAdvisory
Spec == Init /\ [][Next]_vars

-----------------------------------------------------------------------------
(* PostgreSQLImporter: the security pages parsed into advisories *)

\* A URL or an href: host is "" for an href that starts with "/", path holds
\* the segments between the slashes
Url(host, path) == [host |-> host, path |-> path]

BASE_URL == Url("https://www.postgresql.org", <<>>)

\* PostgreSQLImporter.root_url
root_url == Url("https://www.postgresql.org", <<"support", "security">>)

\* link.startswith("/")
StartsWithSlash(link) == link.host = ""

\* urlparse.urljoin(base, link): a link that starts with "/" replaces the
\* path of the base, a link with a host of its own stays as it is
urljoin(base, link) ==
    IF StartsWithSlash(link) THEN Url(base.host, link.path) ELSE link

\* The path segments that start with "CVE"
CveSegments == {"CVE-2021-0001", "CVE-2021-0002", "CVE-2021-0003"}

\* "support/security/CVE" in link
IsCvePage(link) ==
    \E i \in 1..(Len(link.path) - 2) :
        /\ link.path[i] = "support"
        /\ link.path[i + 1] = "security"
        /\ link.path[i + 2] \in CveSegments

\* text.split(","), the text given as its characters: the pieces between
\* the commas, the text itself when it has no comma
RECURSIVE split(_)
split(text) ==
    IF \A i \in 1..Len(text) : text[i] # ","
    THEN <<text>>
    ELSE LET comma == CHOOSE i \in 1..Len(text) :
                          /\ text[i] = ","
                          /\ \A j \in 1..(i - 1) : text[j] # ","
         IN  <<SubSeq(text, 1, comma - 1)>>
             \o split(SubSeq(text, comma + 1, Len(text)))

\* text.strip(): the text without the blanks at its ends
RECURSIVE strip(_)
strip(text) ==
    IF text = <<>> THEN text
    ELSE IF Head(text) = " " THEN strip(Tail(text))
    ELSE IF text[Len(text)] = " " THEN strip(SubSeq(text, 1, Len(text) - 1))
    ELSE text

DigitValue ==
    ("0" :> 0) @@ ("1" :> 1) @@ ("2" :> 2) @@ ("3" :> 3) @@ ("4" :> 4)
    @@ ("5" :> 5) @@ ("6" :> 6) @@ ("7" :> 7) @@ ("8" :> 8) @@ ("9" :> 9)

\* The version a PackageURL keeps for a version string: none for the empty
\* string, else the number the digits spell
RECURSIVE VersionOf(_)
VersionOf(text) ==
    IF text = <<>> THEN NoVersion
    ELSE IF Len(text) = 1 THEN DigitValue[text[1]]
    ELSE 10 * VersionOf(SubSeq(text, 1, Len(text) - 1)) + DigitValue[text[Len(text)]]

\* PackageURL(type="generic", name="postgresql", version=..., qualifiers=...),
\* the qualifiers as the set of their key-value pairs
PostgresPackage(version, qualifiers) ==
    [type |-> "generic", namespace |-> "", name |-> "postgresql",
     version |-> VersionOf(version), qualifiers |-> qualifiers]

VulnerabilitySeverity(system, value) == [system |-> system, value |-> value]

Reference(url, severities) == [url |-> url, severities |-> severities]

\* Advisory(vulnerability_id=..., summary=..., references=..., affected_packages=...)
PostgresAdvisory(vulnerability_id, summary, references, affected_packages) ==
    [vulnerability_id |-> vulnerability_id,
     summary |-> summary,
     references |-> references,
     affected_packages |-> affected_packages]

\* A local of to_advisories: not bound before its first assignment
Unbound == [bound |-> FALSE, value |-> <<>>]
Bound(value) == [bound |-> TRUE, value |-> value]

\* pkg_qualifiers of a row
Qualifiers(summary) ==
    IF summary.mentions_windows THEN {<<"os", "windows">>} ELSE {}

\* affected_packages of a row: one package per piece of the affected column
AffectedPackages(row) ==
    LET versions == split(row.affected_col)
    IN  [i \in 1..Len(versions) |->
            PostgresPackage(strip(versions[i]), Qualifiers(row.desc_col))]

\* fixed_packages of a row: one package per piece of the fixed column that
\* is not the empty string
FixedPackages(row) ==
    LET versions == SelectSeq(split(row.fixed_col), LAMBDA version : version # <<>>)
    IN  [i \in 1..Len(versions) |->
            PostgresPackage(strip(versions[i]), Qualifiers(row.desc_col))]

\* The severities of a link to a CVE page, from the tag of the score column
Severities(vector_link_tag) ==
    <<VulnerabilitySeverity("cvssv3", vector_link_tag.text),
      VulnerabilitySeverity("cvssv3_vector", vector_link_tag.vector)>>

\* The one element of a singleton. Only({e(x) : x \in {d}}) is e(d) with d
\* evaluated once
Only(S) == CHOOSE x \in S : TRUE

\* The loop over the a tags of the reference column. severities is the local
\* of that name as the loop finds it; the loop ends with the references and
\* the local as it leaves it, or with the exception of reading the local
\* before any assignment
RECURSIVE References(_, _, _)
References(a_tags, vector_link_tag, severities) ==
    IF a_tags = <<>>
    THEN [raised |-> "", references |-> <<>>, severities |-> severities]
    ELSE Only({
            IF ~ assigned.bound
            THEN [raised |-> "UnboundLocalError", references |-> <<>>,
                  severities |-> assigned]
            ELSE Only({[raised |-> rest.raised,
                        references |->
                            <<Reference(urljoin(BASE_URL, Head(a_tags)), assigned.value)>>
                            \o rest.references,
                        severities |-> rest.severities] :
                       rest \in {References(Tail(a_tags), vector_link_tag, assigned)}}) :
            assigned \in {IF StartsWithSlash(Head(a_tags))
                          THEN Bound(IF /\ IsCvePage(urljoin(BASE_URL, Head(a_tags)))
                                        /\ vector_link_tag # None
                                     THEN Severities(vector_link_tag)
                                     ELSE <<>>)
                          ELSE severities}})

\* The loop over the rows of the table. cve_id and severities are the locals
\* of those names as the loop finds them. handed lists the arguments of the
\* nearest_patched_package calls made.
RECURSIVE Rows(_, _, _)
Rows(rows, cve_id, severities) ==
    IF rows = <<>>
    THEN [raised |-> "", advisories |-> <<>>, handed |-> <<>>]
    ELSE Only({
            IF loop.raised # ""
            THEN [raised |-> loop.raised, advisories |-> <<>>, handed |-> <<>>]
            ELSE IF ~ assigned.bound
            THEN [raised |-> "UnboundLocalError", advisories |-> <<>>, handed |-> <<>>]
            ELSE Only({[raised |-> rest.raised,
                        advisories |->
                            <<PostgresAdvisory(
                                assigned.value, Head(rows).desc_col.text, loop.references,
                                nearest_patched_package(SeqRange(affected_packages),
                                                        SeqRange(fixed_packages)))>>
                            \o rest.advisories,
                        handed |->
                            <<[vulnerable_packages |-> affected_packages,
                               resolved_packages |-> fixed_packages]>>
                            \o rest.handed] :
                       rest \in {Rows(Tail(rows), assigned, loop.severities)}}) :
            affected_packages \in {AffectedPackages(Head(rows))},
            fixed_packages \in {FixedPackages(Head(rows))},
            assigned \in {IF Head(rows).nobr # <<>>
                          THEN Bound(Head(rows).nobr[1])
                          ELSE cve_id},
            loop \in {References(Head(rows).a_tags, Head(rows).vector_link_tag,
                                 severities)}})

\* to_advisories(data), the page given as the rows of its first table: the
\* advisories returned or the exception raised, and the arguments of the
\* nearest_patched_package calls made on the way
to_advisories(data) ==
    IF ~ data.has_table
    THEN [raised |-> "IndexError", value |-> None, handed |-> <<>>]
    ELSE Only({[raised |-> outcome.raised,
                value |-> IF outcome.raised = "" THEN outcome.advisories ELSE None,
                handed |-> outcome.handed] :
               outcome \in {Rows(data.rows, Unbound, Unbound)}})

-----------------------------------------------------------------------------
(* PostgreSQLImporter.updated_advisories: the crawl of the security pages *)

\* Faulty variant: every known URL is fetched again in every round
Unvisited_all(known, visited) == known

\* known_urls - visited_urls
Unvisited(known, visited) == known \ visited

\* Faulty variant: the links of a page are not followed
find_advisory_urls_none(page_data) == {}

\* find_advisory_urls(page_data): the links under the headings, made absolute
find_advisory_urls(page_data) ==
    {urljoin(BASE_URL, href) : href \in page_data.advisory_links}

\* unvisited_urls = known_urls - visited_urls, at the top of the while loop
Round ==
    /\ pc = "while"
    /\ unvisited_urls' = Unvisited(known_urls, visited_urls)
    /\ pc' = "for"
    /\ UNCHANGED <<args, ret, improver_vars, site, known_urls, visited_urls,
                   advisories, request_count>>

\* One pass of the for loop, on a URL of the round in the order the set
\* gives: the page is requested and parsed, its advisories are appended,
\* the URL is visited and the links of the page are known. An exception of
\* to_advisories leaves updated_advisories.
Fetch ==
    /\ pc = "for"
    /\ \E url \in unvisited_urls :
        \E outcome \in {to_advisories(site[url])} :
            /\ request_count' = [request_count EXCEPT ![url] = @ + 1]
            /\ unvisited_urls' = unvisited_urls \ {url}
            /\ IF outcome.raised # ""
               THEN /\ pc' = "raise"
                    /\ ret' = [raised |-> outcome.raised, value |-> None]
                    /\ UNCHANGED <<advisories, visited_urls, known_urls>>
               ELSE /\ pc' = "for"
                    /\ advisories' = advisories \o outcome.value
                    /\ visited_urls' = visited_urls \cup {url}
                    /\ known_urls' = known_urls \cup find_advisory_urls(site[url])
                    /\ UNCHANGED ret
    /\ UNCHANGED <<args, improver_vars, site>>

\* The end of the for loop: break when every known URL is visited, and
\* return the advisories in batches; else the next round
Break ==
    /\ pc = "for"
    /\ unvisited_urls = {}
    /\ IF known_urls = visited_urls
       THEN /\ pc' = "return"
            /\ ret' = [raised |-> "", value |-> advisories]
       ELSE /\ pc' = "while"
            /\ UNCHANGED ret
    /\ UNCHANGED <<args, improver_vars, crawler_vars>>

updated_advisories == Round \/ Fetch \/ Break

-----------------------------------------------------------------------------
(* Inputs of the PostgreSQL importer *)

\* The a tag of the score column: the base score as its text, the vector in
\* the query of its href
VectorLinkTags == {[text |-> "7.5", vector |-> <<"AV:N/AC:L/PR:N/UI:N/S:U/C:H/I:N/A:N">>]}

\* hrefs of the reference column: a CVE page of the site, another page of
\* the site, and the CVE page given with its host
ReferenceHrefs ==
    {Url("", <<"support", "security", "CVE-2021-0001">>),
     Url("", <<"about", "news", "2021">>),
     Url("https://www.postgresql.org", <<"support", "security", "CVE-2021-0002">>)}

\* Descriptions that mention windows or do not
Summaries ==
    {[text |-> "Memory disclosure in partition routing", mentions_windows |-> FALSE],
     [text |-> "Windows installer runs executables from uncontrolled directories",
      mentions_windows |-> TRUE]}

\* Texts of the affected and the fixed column: empty, one version, two
\* versions, a trailing comma, an entry of one blank
ColumnTexts ==
    {<<>>,
     <<"1">>,
     <<"1", ",", " ", "2">>,
     <<"1", ",">>,
     <<"1", ",", " ">>}

\* Rows that differ in their reference and score columns
ReferenceRows ==
    {[nobr |-> nobr, a_tags |-> a_tags, vector_link_tag |-> vector_link_tag,
      affected_col |-> <<"1">>, fixed_col |-> <<"2">>,
      desc_col |-> [text |-> "Memory disclosure in partition routing",
                    mentions_windows |-> FALSE]] :
        nobr \in {<<>>, <<"CVE-2021-0001">>, <<"CVE-2021-0002">>},
        a_tags \in {<<>>} \cup SeqsUpTo(ReferenceHrefs, 2),
        vector_link_tag \in {None} \cup VectorLinkTags}

\* Rows that differ in their version columns and their description
PackageRows ==
    {[nobr |-> <<"CVE-2021-0001">>,
      a_tags |-> <<Url("", <<"support", "security", "CVE-2021-0001">>)>>,
      vector_link_tag |-> None,
      affected_col |-> affected_col, fixed_col |-> fixed_col,
      desc_col |-> desc_col] :
        affected_col \in ColumnTexts, fixed_col \in ColumnTexts,
        desc_col \in Summaries}

\* Pages: no table, or a table of one or two rows
Pages ==
    {[has_table |-> FALSE, rows |-> <<>>, advisory_links |-> {}]}
    \cup {[has_table |-> TRUE, rows |-> rows, advisory_links |-> {}] :
            rows \in SeqsUpTo(ReferenceRows, 2) \cup SeqsUpTo(PackageRows, 2)}

\* The URLs of the crawled site
CrawlUrls ==
    {root_url,
     Url("https://www.postgresql.org", <<"support", "security", "11">>),
     Url("https://www.postgresql.org", <<"support", "security", "10">>)}

\* The hrefs of the links to them
CrawlHrefs == {Url("", url.path) : url \in CrawlUrls}

\* The CVE of the one row of the page at a URL
CveOf(url) ==
    IF url = root_url THEN "CVE-2021-0001"
    ELSE IF url.path[3] = "11" THEN "CVE-2021-0002"
    ELSE "CVE-2021-0003"

CrawlRow(url) ==
    [nobr |-> <<CveOf(url)>>,
     a_tags |-> <<Url("", <<"support", "security", CveOf(url)>>)>>,
     vector_link_tag |-> None,
     affected_col |-> <<"1">>, fixed_col |-> <<"2">>,
     desc_col |-> [text |-> "Memory disclosure in partition routing",
                   mentions_windows |-> FALSE]]

\* Sites: every page has a table of one row or no table, and links to any
\* of the pages, itself and the root included
Sites ==
    {[url \in CrawlUrls |->
        [has_table |-> tables[url], rows |-> <<CrawlRow(url)>>,
         advisory_links |-> links[url]]] :
        tables \in [CrawlUrls -> BOOLEAN],
        links \in [CrawlUrls -> SUBSET CrawlHrefs]}

-----------------------------------------------------------------------------
(* Specifications of the PostgreSQL importer *)

ToAdvisories ==
    /\ pc = "call"
    /\ ret' = to_advisories(args)
    /\ pc' = "return"
    /\ UNCHANGED <<args, improver_vars, crawler_vars>>

InitPostgres == HelperCall(Pages)
SpecPostgres == InitPostgres /\ [][ToAdvisories]_vars

\* PostgreSQLImporter().updated_advisories() on a site; the interpreter
\* runs the next statement as long as there is one
InitCrawl ==
    /\ pc = "while"
    /\ args = None
    /\ ret = None
    /\ Constructed
    /\ registry = {}
    /\ reachable = TRUE
    /\ site \in Sites
    /\ known_urls = {root_url}
    /\ visited_urls = {}
    /\ unvisited_urls = {}
    /\ advisories = <<>>
    /\ request_count = [url \in CrawlUrls |-> 0]
SpecCrawl == InitCrawl /\ [][updated_advisories]_vars /\ WF_vars(updated_advisories)

-----------------------------------------------------------------------------
(* Calls of get_inferences and get_package_versions on one improver *)

\* Advisories of the calls: those of a batch, undated, and one of each
\* package whose versions cannot be looked up
CallAdvisories ==
    {advisory \in BatchAdvisories : advisory.date_published = NoDate}
    \cup {Advisory(<<AffectedPackage(purl, VersionRange(Versions), NoVersion)>>, NoDate) :
            purl \in {Generic, Unnamed}}

\* improver.get_inferences(advisory), consumed to its end
CallGetInferences ==
    /\ calls < MaxCalls
    /\ \E advisory \in CallAdvisories :
          /\ get_inferences(advisory)
          /\ args' = advisory
    /\ pc' = "get_inferences"
    /\ UNCHANGED <<ret, crawler_vars>>

\* improver.get_package_versions(package_url, until)
CallGetPackageVersions ==
    /\ calls < MaxCalls
    /\ \E package_url \in FetcherKeys, until \in {NoDate, ReleaseDate(1)} :
        \E fetch \in {get_package_versions(package_url, until,
                                            versions_fetcher_by_purl, fetchers_created)} :
            /\ args' = [package_url |-> package_url, until |-> until]
            /\ ret' = fetch.valid_versions
            /\ raised' = fetch.raised
            /\ error_log' = fetch.error_log
            /\ versions_fetcher_by_purl' = fetch.fetchers
            /\ fetchers_created' = fetch.created
            /\ get_until_calls' =
                    [purl \in FetcherKeys |->
                        IF purl \in SeqRange(fetch.fetched)
                        THEN get_until_calls[purl] + 1
                        ELSE get_until_calls[purl]]
            /\ fetches' =
                    [purl \in FetcherKeys |->
                        IF purl \in SeqRange(fetch.fetched)
                        THEN fetches[purl] + fetch.requests
                        ELSE fetches[purl]]
    /\ pc' = "get_package_versions"
    /\ calls' = calls + 1
    /\ UNCHANGED <<registry, reachable, threads, advisory_data, inferences,
                   yielded_by_range, valid_versions, crawler_vars>>

ImproverCall == CallGetInferences \/ CallGetPackageVersions

InitCalls ==
    /\ pc = "idle"
    /\ args = None
    /\ ret = None
    /\ Constructed
    /\ Uncrawled
    /\ registry \in {{}, Versions}
    /\ reachable = TRUE
SpecCalls == InitCalls /\ [][ImproverCall]_vars

-----------------------------------------------------------------------------
(* Claims about the nearest-patched matcher (SpecMatcher) *)

VersionsOf(packages) == {package.version : package \in packages}

\* C1: for disjoint vulnerable and resolved sets of one package the matcher
\* returns exactly one pair per vulnerable package, and a pair's patched
\* package, when there is one, is the resolved package of the smallest
\* version strictly greater than the vulnerable version.
C1_OnePairPerVulnerableNearestPatch ==
    (pc = "return" /\ args.vulnerable_packages \cap args.resolved_packages = {}) =>
        /\ Len(ret) = Cardinality(args.vulnerable_packages)
        /\ \A package \in args.vulnerable_packages :
              Cardinality({i \in 1..Len(ret) : ret[i].vulnerable_package = package}) = 1
        /\ \A i \in 1..Len(ret) :
              /\ ret[i].vulnerable_package \in args.vulnerable_packages
              /\ ret[i].patched_package # None =>
                    /\ ret[i].patched_package \in args.resolved_packages
                    /\ ret[i].patched_package.version > ret[i].vulnerable_package.version
                    /\ \A resolved \in args.resolved_packages :
                          resolved.version > ret[i].vulnerable_package.version
                              => ret[i].patched_package.version <= resolved.version

\* A vulnerable package with two resolved packages above it got the nearer one
C1_Witness ==
    /\ pc = "return"
    /\ args.vulnerable_packages \cap args.resolved_packages = {}
    /\ \E i \in 1..Len(ret) :
          /\ ret[i].patched_package # None
          /\ \E resolved \in args.resolved_packages :
                resolved.version > ret[i].patched_package.version

\* C2: a vulnerable package is paired with None exactly when no resolved
\* package has a strictly greater version; with no resolved package every
\* pair has None, and with no vulnerable package there is no pair.
C2_NullPatchIffNothingGreater ==
    pc = "return" =>
        /\ \A i \in 1..Len(ret) :
              ret[i].patched_package = None
                  <=> ~ \E resolved \in args.resolved_packages :
                            resolved.version > ret[i].vulnerable_package.version
        /\ args.resolved_packages = {} =>
              /\ Len(ret) = Cardinality(args.vulnerable_packages)
              /\ \A i \in 1..Len(ret) : ret[i].patched_package = None
        /\ args.vulnerable_packages = {} => ret = <<>>

\* A vulnerable package that is also the greatest resolved one got None
C2_Witness ==
    /\ pc = "return"
    /\ \E i \in 1..Len(ret) :
          /\ ret[i].patched_package = None
          /\ ret[i].vulnerable_package \in args.resolved_packages

-----------------------------------------------------------------------------
(* Claims about the range resolver (SpecResolver) *)

\* C3: for a range and a universe, affected is exactly the universe versions
\* the range contains, affected and unaffected together are the universe, and
\* they share no version.
C3_ResolvePartitionsUniverse ==
    (pc = "return" /\ args.affected_version_range # None) =>
        /\ ret.affected = {v \in SeqRange(args.package_versions) :
                              Contains(args.affected_version_range, v)}
        /\ ret.affected \cup ret.unaffected = SeqRange(args.package_versions)
        /\ ret.affected \cap ret.unaffected = {}

\* A universe that the range splits in two non-empty parts
C3_Witness ==
    /\ pc = "return"
    /\ args.affected_version_range # None
    /\ ret.affected # {}
    /\ ret.unaffected # {}

-----------------------------------------------------------------------------
(* Claims about the affected-package merger (SpecMerge) *)

\* The (type, namespace, name) identities of the entries of a list
IdentitiesOf(affected_packages) ==
    {<<affected_packages[i].package.type,
       affected_packages[i].package.namespace,
       affected_packages[i].package.name>> : i \in 1..Len(affected_packages)}

\* C4: merge does not fail on a non-empty list of one identity, and raises
\* UnMergeablePackageError on a list of two or more identities, wherever in
\* the list they stand.
C4_MergeFailsIffIdentitiesDiffer ==
    pc = "return" =>
        /\ Cardinality(IdentitiesOf(args)) = 1 => ret.raised = ""
        /\ Cardinality(IdentitiesOf(args)) >= 2 => ret.raised = "UnMergeablePackageError"

\* The error is raised for a list whose last entry alone is of another identity
C4_Witness ==
    /\ pc = "return"
    /\ Len(args) = 3
    /\ Cardinality(IdentitiesOf(SubSeq(args, 1, 2))) = 1
    /\ ret.raised = "UnMergeablePackageError"

-----------------------------------------------------------------------------
(* Claims about a batch of advisories on one improver (Spec) *)

\* The advisory's affected packages are of two or more identities
Conflicting(advisory) ==
    /\ advisory # None
    /\ Cardinality(IdentitiesOf(advisory.affected_packages)) >= 2

\* What the caller of get_inferences sees for the advisory on an improver
\* with the fetcher map `fetchers`
VisibleOn(advisory, fetchers, created) ==
    LET outcome == GetInferences(advisory, fetchers, created)
    IN  [inferences |-> Yielded(outcome), raised |-> outcome.raised]

\* The same, in the current state of the improver
Visible(advisory) == VisibleOn(advisory, versions_fetcher_by_purl, fetchers_created)

\* C5: a call on an advisory with conflicting identities yields no inference,
\* does not raise, does not call the version-universe service and leaves the
\* improver as it was, so that every advisory yields after it what it would
\* have yielded without it.
C5_ConflictSkippedInIsolation ==
    [][Conflicting(advisory_data') =>
          /\ inferences' = <<>>
          /\ raised' = ""
          /\ get_until_calls' = get_until_calls
          /\ versions_fetcher_by_purl' = versions_fetcher_by_purl
          /\ fetchers_created' = fetchers_created
          /\ registry' = registry
          /\ \A advisory \in BatchAdvisories :
                VisibleOn(advisory, versions_fetcher_by_purl', fetchers_created')
                    = VisibleOn(advisory, versions_fetcher_by_purl, fetchers_created)
      ]_vars

\* A conflicting advisory was processed after one that fetched versions
C5_Witness ==
    /\ calls = 2
    /\ Conflicting(advisory_data)
    /\ \E purl \in ImproverPurls : get_until_calls[purl] = 1

\* C6 as claimed: what get_inferences returns for an advisory of conflicting
\* identities differs from what it returns for the same advisory without
\* affected packages.
C6_ConflictSurfacedToCaller ==
    Conflicting(advisory_data) =>
        [inferences |-> inferences, raised |-> raised]
            # Visible(Advisory(<<>>, advisory_data.date_published))

\* C6 amended: an identity conflict is reported in the error log only; the
\* caller gets the same empty result, without exception, as for an advisory
\* without affected packages, for which nothing is logged.
C6_ConflictOnlyLogged ==
    Conflicting(advisory_data) =>
        /\ [inferences |-> inferences, raised |-> raised]
              = Visible(Advisory(<<>>, advisory_data.date_published))
        /\ error_log # <<>>
        /\ GetInferences(Advisory(<<>>, advisory_data.date_published),
                         versions_fetcher_by_purl, fetchers_created).error_log = <<>>

\* A conflicting advisory was the first of the batch
C6_Witness ==
    /\ calls = 1
    /\ Conflicting(advisory_data)
    /\ error_log # <<>>

-----------------------------------------------------------------------------
(* Claims about one get_inferences call (SpecEmit) *)

InferenceVersions(inference) == VersionsOf(SeqRange(inference.affected_purls))

\* C7: the inferences yielded for one range partition the universe versions
\* the range contains by nearest fix: their fixed_purl are pairwise distinct,
\* their affected_purls pairwise disjoint and never empty, and together they
\* are the versions of the universe the range contains.
C7_InferencesPartitionAffected ==
    pc = "return" =>
        \A k \in 1..Len(yielded_by_range) :
            LET yielded == yielded_by_range[k].inferences
                range == yielded_by_range[k].affected_version_range
            IN  /\ \A i, j \in 1..Len(yielded) :
                      i # j =>
                          /\ yielded[i].fixed_purl # yielded[j].fixed_purl
                          /\ SeqRange(yielded[i].affected_purls)
                                \cap SeqRange(yielded[j].affected_purls) = {}
                /\ \A i \in 1..Len(yielded) : yielded[i].affected_purls # <<>>
                /\ UNION {InferenceVersions(yielded[i]) : i \in 1..Len(yielded)}
                      = {v \in SeqRange(valid_versions) : Contains(range, v)}

\* One range yielded an inference with a fix and one without
C7_Witness ==
    /\ pc = "return"
    /\ \E k \in 1..Len(yielded_by_range) :
          \E i, j \in 1..Len(yielded_by_range[k].inferences) :
              /\ yielded_by_range[k].inferences[i].fixed_purl # None
              /\ yielded_by_range[k].inferences[j].fixed_purl = None

\* The ranges the entries of an advisory stand for
RangesOf(advisory) ==
    {RangeOf(advisory.affected_packages[i]) :
        i \in 1..Len(advisory.affected_packages)} \ {None}

C9_NoVersionAfterPublication ==
    (pc = "return" /\ advisory_data.date_published # NoDate) =>
        \A i \in 1..Len(inferences) :
            /\ \A v \in InferenceVersions(inferences[i]) :
                  ReleaseDate(v) <= advisory_data.date_published
            /\ inferences[i].fixed_purl # None =>
                  ReleaseDate(inferences[i].fixed_purl.version)
                      <= advisory_data.date_published

\* Inferences were yielded although the registry holds a later version that
\* a range of the advisory contains
C9_Witness ==
    /\ pc = "return"
    /\ advisory_data.date_published # NoDate
    /\ inferences # <<>>
    /\ \E v \in registry :
          /\ ReleaseDate(v) > advisory_data.date_published
          /\ \E range \in RangesOf(advisory_data) : Contains(range, v)

\* C10: every affected_purl is of a fetched version that the range contains,
\* every fixed_purl is of a fetched version that the range does not contain,
\* the fetched versions are published ones, and nothing is yielded when no
\* version was fetched or no range reached the resolver.
C10_NoGuessedVersion ==
    pc = "return" =>
        /\ SeqRange(valid_versions) \subseteq registry
        /\ \A k \in 1..Len(yielded_by_range) :
              \A i \in 1..Len(yielded_by_range[k].inferences) :
                  LET inference == yielded_by_range[k].inferences[i]
                      range == yielded_by_range[k].affected_version_range
                  IN  /\ \A v \in InferenceVersions(inference) :
                            v \in SeqRange(valid_versions) /\ Contains(range, v)
                      /\ inference.fixed_purl # None =>
                            /\ inference.fixed_purl.version \in SeqRange(valid_versions)
                            /\ ~ Contains(range, inference.fixed_purl.version)
        /\ (valid_versions = <<>> \/ RangesOf(advisory_data) = {}) => inferences = <<>>

\* Nothing was yielded for a range that names versions, none of them fetched
C10_Witness ==
    /\ pc = "return"
    /\ valid_versions = <<>>
    /\ \E range \in RangesOf(advisory_data) : range.members # {}
    /\ inferences = <<>>

-----------------------------------------------------------------------------
(* Claims about an empty version universe (SpecEmit) *)

\* C11: an empty version universe is not an error: every range of the
\* advisory resolves to two empty sets against it, and the call yields no
\* inference and raises nothing.
C11_EmptyUniverseYieldsNothing ==
    (pc = "return" /\ valid_versions = <<>>) =>
        /\ raised = ""
        /\ inferences = <<>>
        /\ \A k \in 1..Len(yielded_by_range) :
              /\ resolve_version_range(yielded_by_range[k].affected_version_range,
                                       valid_versions)
                    = [affected |-> {}, unaffected |-> {}]
              /\ yielded_by_range[k].inferences = <<>>

\* Ranges reached the resolver while the registry had published nothing
C11_Witness ==
    /\ pc = "return"
    /\ registry = {}
    /\ valid_versions = <<>>
    /\ yielded_by_range # <<>>
    /\ \E k \in 1..Len(yielded_by_range) :
          yielded_by_range[k].affected_version_range.members # {}
    /\ inferences = <<>>
    /\ raised = ""

-----------------------------------------------------------------------------
(* Claims about a failing version-universe lookup (SpecLookup) *)

\* The lookup of the advisory's package fails: the registry does not answer,
\* the package type has no version API class, or the package has no name
\* the registry knows it by
LookupFails(advisory) ==
    LET purl == advisory.affected_packages[1].package
    IN  \/ ~ reachable
        \/ purl.type \notin DOMAIN VERSION_API_CLASSES_BY_PACKAGE_TYPE
        \/ get_api_package_name(purl) = None

-----------------------------------------------------------------------------
(* Claims about running an advisory again (SpecRepeat) *)

-----------------------------------------------------------------------------
(* Claims about the fetcher map over a batch (Spec) *)

\* C14: over any sequence of advisories on one improver, at most one request
\* reaches the registry per package: the first lookup of a package makes it,
\* and every later advisory of that package is served by the stored fetcher
\* without a new request.
C14_OneFetchPerPackage ==
    \A purl \in FetcherKeys :
        /\ fetches[purl] <= 1
        /\ get_until_calls[purl] >= 1 =>
              /\ fetches[purl] = 1
              /\ versions_fetcher_by_purl[purl] # None
              /\ Cached(versions_fetcher_by_purl[purl], get_api_package_name(purl)) # {}

\* Two advisories of one package were improved, the second without a request
C14_Witness ==
    /\ calls = 2
    /\ \E purl \in ImproverPurls :
          /\ get_until_calls[purl] = 2
          /\ fetches[purl] = 1

-----------------------------------------------------------------------------
(* Claims about advisories improved in parallel (SpecParallel) *)

\* C15: when advisories of one package are improved in parallel on one
\* improver, at most one request per package key is in flight at any time,
\* and at most one fetcher is ever constructed and stored per key.
C15_OneFetcherAndOneFlightPerKey ==
    \A purl \in ImproverPurls :
        /\ Cardinality(InFlight(purl)) <= 1
        /\ Stored(purl) <= 1

-----------------------------------------------------------------------------
(* Claims about the confidence of an inference (SpecEmit) *)

\* C16: every inference yielded has a confidence in 0..100 that depends only
\* on how its range was resolved: it is 100, and the inference names
\* versions its range matched in the fetched universe; a range that matched
\* no fetched version, or an empty universe, yields no inference at all,
\* none of a lower confidence either.
C16_ConfidenceIsConstant ==
    pc = "return" =>
        \A k \in 1..Len(yielded_by_range) :
            LET range == yielded_by_range[k].affected_version_range
                matched == {v \in SeqRange(valid_versions) : Contains(range, v)}
            IN  /\ \A i \in 1..Len(yielded_by_range[k].inferences) :
                      LET inference == yielded_by_range[k].inferences[i]
                      IN  /\ inference.confidence \in 0..100
                          /\ inference.confidence = 100
                          /\ InferenceVersions(inference) # {}
                          /\ InferenceVersions(inference) \subseteq matched
                /\ matched = {} => yielded_by_range[k].inferences = <<>>

\* One range of the advisory yielded inferences, another matched nothing fetched
C16_Witness ==
    /\ pc = "return"
    /\ \E k \in 1..Len(yielded_by_range) :
          /\ yielded_by_range[k].inferences # <<>>
          /\ \A i \in 1..Len(yielded_by_range[k].inferences) :
                yielded_by_range[k].inferences[i].confidence = 100
    /\ \E k \in 1..Len(yielded_by_range) :
          /\ yielded_by_range[k].affected_version_range.members # {}
          /\ yielded_by_range[k].inferences = <<>>

-----------------------------------------------------------------------------
(* Claims about entries that carry a fixed version (SpecEmit) *)

\* The entries of the advisory with a fixed_version and no explicit range
FixedOnly(advisory) ==
    {i \in 1..Len(advisory.affected_packages) :
        /\ advisory.affected_packages[i].affected_version_range = None
        /\ advisory.affected_packages[i].fixed_version # NoVersion}

\* C17: an entry with a fixed_version and no explicit range is turned by
\* merge into the range of that one version, which reaches the resolver; an
\* advisory all of whose entries are of that kind reaches the resolver with
\* a non-empty list of ranges.
C17_FixedOnlyEntryBecomesRange ==
    pc = "return" =>
        /\ \A i \in FixedOnly(advisory_data) :
              \E k \in 1..Len(yielded_by_range) :
                  LET range == yielded_by_range[k].affected_version_range
                  IN  /\ range # None
                      /\ range.members = {advisory_data.affected_packages[i].fixed_version}
        /\ FixedOnly(advisory_data) # {} => yielded_by_range # <<>>

\* An advisory of fixed-only entries was resolved against a fetched universe
C17_Witness ==
    /\ pc = "return"
    /\ advisory_data.affected_packages # <<>>
    /\ FixedOnly(advisory_data) = 1..Len(advisory_data.affected_packages)
    /\ valid_versions # <<>>
    /\ Len(yielded_by_range) = 1
    /\ Cardinality(yielded_by_range[1].affected_version_range.members) = 1

-----------------------------------------------------------------------------
(* Claims about the entries the importer builds (SpecParse) *)

\* parse_yaml_file returned an AdvisoryData
Parsed == pc = "return" /\ ret.raised = "" /\ ret.value # None

\* The record has an affected_range that parses to a range
HasParsableRange(gitlab_advisory) ==
    /\ "affected_range" \in gitlab_advisory.keys
    /\ gitlab_advisory.affected_range.parsable

\* The record has a fixed version that parses
HasParsableFixedVersion(gitlab_advisory) ==
    /\ "fixed_versions" \in gitlab_advisory.keys
    /\ \E j \in 1..Len(gitlab_advisory.fixed_versions) :
          gitlab_advisory.fixed_versions[j].parsable

\* C18: in every AffectedPackage the importer produces exactly one of
\* affected_version_range and fixed_version is populated, never both and
\* never neither.
C18_ExactlyOneRepresentation ==
    Parsed =>
        \A i \in 1..Len(ret.value.affected_packages) :
            LET entry == ret.value.affected_packages[i]
            IN  (entry.affected_version_range # None) # (entry.fixed_version # NoVersion)

\* C18, amended: in every AffectedPackage the importer produces at least one
\* of affected_version_range and fixed_version is populated, never neither;
\* the range is populated exactly when the record's affected_range parses,
\* the fixed version exactly when one of its fixed_versions parses, so both
\* are populated when the record has both.
C18_AtLeastOneRepresentation ==
    Parsed =>
        \A i \in 1..Len(ret.value.affected_packages) :
            LET entry == ret.value.affected_packages[i]
            IN  /\ entry.affected_version_range # None \/ entry.fixed_version # NoVersion
                /\ entry.affected_version_range # None <=> HasParsableRange(args)
                /\ entry.fixed_version # NoVersion <=> HasParsableFixedVersion(args)

\* An entry built from a record with a range and a fixed version carries both
C18_Witness ==
    /\ Parsed
    /\ HasParsableRange(args)
    /\ HasParsableFixedVersion(args)
    /\ \E i \in 1..Len(ret.value.affected_packages) :
          /\ ret.value.affected_packages[i].affected_version_range # None
          /\ ret.value.affected_packages[i].fixed_version # NoVersion

-----------------------------------------------------------------------------
(* Claims about explicit fixed versions (SpecEmit) *)

\* Every entry of the advisory has an explicit range and a fixed version
SuppliesRangeAndFixed(advisory) ==
    /\ advisory.affected_packages # <<>>
    /\ \A i \in 1..Len(advisory.affected_packages) :
          /\ advisory.affected_packages[i].affected_version_range # None
          /\ advisory.affected_packages[i].fixed_version # NoVersion

\* The fixed versions the advisory lists
ExplicitFixedVersions(advisory) ==
    {advisory.affected_packages[i].fixed_version :
        i \in 1..Len(advisory.affected_packages)} \ {NoVersion}

\* C19: for an advisory that supplies explicit fixed versions and an affected
\* range, the fixed_purl of every inference is null or one of the
\* advisory's explicit fixed versions.
C19_FixedPurlFromExplicitList ==
    (pc = "return" /\ SuppliesRangeAndFixed(advisory_data)) =>
        \A i \in 1..Len(inferences) :
            \/ inferences[i].fixed_purl = None
            \/ inferences[i].fixed_purl.version \in ExplicitFixedVersions(advisory_data)

\* C19, amended: for an advisory that supplies explicit fixed versions and an
\* affected range, the fixed_purl of every inference is null or the least
\* fetched version outside the range above the inference's affected
\* versions, whether the advisory lists that version as fixed or not.
C19_FixedPurlFromUniverse ==
    (pc = "return" /\ SuppliesRangeAndFixed(advisory_data)) =>
        \A k \in 1..Len(yielded_by_range) :
            \A i \in 1..Len(yielded_by_range[k].inferences) :
                LET inference == yielded_by_range[k].inferences[i]
                    range == yielded_by_range[k].affected_version_range
                    outside == {w \in SeqRange(valid_versions) : ~ Contains(range, w)}
                IN  \/ inference.fixed_purl = None
                    \/ /\ inference.fixed_purl.version \in outside
                       /\ \A v \in InferenceVersions(inference) :
                             /\ v < inference.fixed_purl.version
                             /\ ~ \E w \in outside :
                                   v < w /\ w < inference.fixed_purl.version

\* An inference names a fixed version the advisory does not list
C19_Witness ==
    /\ pc = "return"
    /\ SuppliesRangeAndFixed(advisory_data)
    /\ \E i \in 1..Len(inferences) :
          /\ inferences[i].fixed_purl # None
          /\ inferences[i].fixed_purl.version \notin ExplicitFixedVersions(advisory_data)

-----------------------------------------------------------------------------
(* Claims about affected versions that share a fix (SpecEmit) *)

\* C20: when every affected version of the universe has the same nearest
\* greater unaffected version f, the range yields exactly one inference: its
\* fixed_purl is f and its affected_purls are all the affected versions.
C20_SharedFixGivesOneInference ==
    pc = "return" =>
        \A k \in 1..Len(yielded_by_range) :
            LET range == yielded_by_range[k].affected_version_range
                yielded == yielded_by_range[k].inferences
                affected == {v \in SeqRange(valid_versions) : Contains(range, v)}
                outside == SeqRange(valid_versions) \ affected
            IN  \A f \in outside :
                    (/\ affected # {}
                     /\ \A v \in affected :
                           v < f /\ ~ \E w \in outside : v < w /\ w < f)
                    => /\ Len(yielded) = 1
                       /\ yielded[1].fixed_purl # None
                       /\ yielded[1].fixed_purl.version = f
                       /\ InferenceVersions(yielded[1]) = affected
                       /\ Len(yielded[1].affected_purls) = Cardinality(affected)

\* The advisory's one range covers two fetched versions below the next one
\* fetched, and one inference names the two with that one as the fix
C20_Witness ==
    /\ pc = "return"
    /\ Len(yielded_by_range) = 1
    /\ Len(inferences) = 1
    /\ Cardinality(InferenceVersions(inferences[1])) = 2
    /\ inferences[1].fixed_purl # None
    /\ \A v \in InferenceVersions(inferences[1]) : v < inferences[1].fixed_purl.version

-----------------------------------------------------------------------------
(* Claims about affected versions with no fix (SpecEmit) *)

\* C21: the affected versions of a range that have no greater unaffected
\* version in the universe are not dropped: the range yields exactly one
\* inference with a null fixed_purl, which names exactly those versions, so
\* none of them is named by an inference that has a concrete fixed_purl;
\* when every affected version has a fix, no inference has a null fixed_purl.
C21_UnfixedVersionsInOneNullInference ==
    pc = "return" =>
        \A k \in 1..Len(yielded_by_range) :
            LET range == yielded_by_range[k].affected_version_range
                yielded == yielded_by_range[k].inferences
                affected == {v \in SeqRange(valid_versions) : Contains(range, v)}
                outside == SeqRange(valid_versions) \ affected
                unfixed == {v \in affected : ~ \E w \in outside : v < w}
                nulls == {i \in 1..Len(yielded) : yielded[i].fixed_purl = None}
            IN  /\ Cardinality(nulls) = IF unfixed = {} THEN 0 ELSE 1
                /\ \A i \in nulls : InferenceVersions(yielded[i]) = unfixed
                /\ \A i \in 1..Len(yielded) :
                      i \notin nulls => InferenceVersions(yielded[i]) \cap unfixed = {}

\* One range yielded an inference with a fix and one without
C21_Witness ==
    /\ pc = "return"
    /\ \E k \in 1..Len(yielded_by_range) :
          LET yielded == yielded_by_range[k].inferences
          IN  /\ \E i \in 1..Len(yielded) : yielded[i].fixed_purl = None
              /\ \E i \in 1..Len(yielded) : yielded[i].fixed_purl # None

-----------------------------------------------------------------------------
(* Claims about parse errors in a record (SpecParse) *)

\* The record is a mapping with the keys parse_yaml_file reads before the
\* range, a pubdate that is a date and a package_slug get_purl makes a purl of
HeadParses(gitlab_advisory) ==
    /\ gitlab_advisory.is_dict
    /\ {"title", "description", "urls", "pubdate", "package_slug"}
            \subseteq gitlab_advisory.keys
    /\ gitlab_advisory.pubdate.parsable
    /\ get_purl(gitlab_advisory.package_slug).raised = ""
    /\ get_purl(gitlab_advisory.package_slug).value # None

\* The record has an affected_range that is not empty and does not parse
HasUnparsableRange(gitlab_advisory) ==
    /\ "affected_range" \in gitlab_advisory.keys
    /\ gitlab_advisory.affected_range.text # ""
    /\ ~ gitlab_advisory.affected_range.parsable

\* The fixed_versions of the record, an empty list when it has none
ListedFixedVersions(gitlab_advisory) ==
    IF "fixed_versions" \in gitlab_advisory.keys
    THEN gitlab_advisory.fixed_versions
    ELSE <<>>

\* C22: a parse error in one field is recovered locally: a record whose
\* affected_range does not parse still gives an AdvisoryData, with no range
\* on any entry and the error logged; a fixed version that does not parse
\* is dropped alone and logged, and the entries carry the parsable fixed
\* versions of the record, all of them, in the record's order.
C22_ParseErrorRecoveredLocally ==
    (pc = "return" /\ HeadParses(args)) =>
        /\ ret.raised = ""
        /\ ret.value # None
        /\ HasUnparsableRange(args) =>
              /\ \A i \in 1..Len(ret.value.affected_packages) :
                    ret.value.affected_packages[i].affected_version_range = None
              /\ "parse_yaml_file: affected_range is not parsable" \in SeqRange(ret.error_log)
        /\ LET kept == SelectSeq(ListedFixedVersions(args),
                                 LAMBDA fixed_version : fixed_version.parsable)
           IN  kept # <<>> =>
                  /\ Len(ret.value.affected_packages) = Len(kept)
                  /\ \A i \in 1..Len(kept) :
                        ret.value.affected_packages[i].fixed_version = kept[i].version
        /\ (\E j \in 1..Len(ListedFixedVersions(args)) :
                ~ ListedFixedVersions(args)[j].parsable)
              => "parse_yaml_file: fixed_version is not parsable" \in SeqRange(ret.error_log)

\* A record whose range and first fixed version do not parse gave an entry
\* for its second fixed version
C22_Witness ==
    /\ pc = "return"
    /\ HeadParses(args)
    /\ HasUnparsableRange(args)
    /\ Len(ListedFixedVersions(args)) = 2
    /\ ~ ListedFixedVersions(args)[1].parsable
    /\ ListedFixedVersions(args)[2].parsable
    /\ ret.raised = ""
    /\ ret.value # None
    /\ Len(ret.value.affected_packages) = 1
    /\ ret.value.affected_packages[1].fixed_version = ListedFixedVersions(args)[2].version

-----------------------------------------------------------------------------
(* Claims about records that cannot be parsed (SpecParse) *)

\* The segments of a slug that are not empty
Segments(package_slug) == SelectSeq(package_slug, LAMBDA part : part # "")

\* The package_slug is empty, has a single segment, or names a scheme
\* PURL_TYPE_BY_GITLAB_SCHEME does not know
UnparsableSlug(package_slug) ==
    \/ Segments(package_slug) = <<>>
    \/ Len(Segments(package_slug)) = 1
    \/ Segments(package_slug)[1] \notin DOMAIN PURL_TYPE_BY_GITLAB_SCHEME

\* The record is no mapping, or lacks title, description, urls or pubdate,
\* or has a package_slug that gives no purl
Unparsable(gitlab_advisory) ==
    \/ ~ gitlab_advisory.is_dict
    \/ \E key \in {"title", "description", "urls", "pubdate"} :
          key \notin gitlab_advisory.keys
    \/ /\ "package_slug" \in gitlab_advisory.keys
       /\ UnparsableSlug(gitlab_advisory.package_slug)

\* C23: for every record that cannot be parsed, parse_yaml_file returns null
\* and does not raise.
C23_UnparsableRecordGivesNull ==
    (pc = "return" /\ Unparsable(args)) =>
        /\ ret.raised = ""
        /\ ret.value = None

-----------------------------------------------------------------------------
(* Claims about the affected_packages list of a record (SpecParse) *)

\* The range the record's affected_range parses to, None when it has none
\* or it does not parse
ParsedRange(gitlab_advisory) ==
    IF HasParsableRange(gitlab_advisory)
    THEN VersionRange(gitlab_advisory.affected_range.members)
    ELSE None

\* C24: for a record parse_yaml_file reads to the end, the affected_packages
\* list has one entry per parsable fixed version when there is one, else one
\* entry when the affected range parsed, else no entry; every entry carries
\* the record's purl without a version and the record's parsed range.
C24_OneEntryPerFixedVersion ==
    (pc = "return" /\ HeadParses(args)) =>
        LET kept == SelectSeq(ListedFixedVersions(args),
                              LAMBDA fixed_version : fixed_version.parsable)
            affected_packages == ret.value.affected_packages
        IN  /\ ret.raised = ""
            /\ Len(affected_packages) =
                    IF kept # <<>> THEN Len(kept)
                    ELSE IF HasParsableRange(args) THEN 1 ELSE 0
            /\ \A i \in 1..Len(affected_packages) :
                  /\ affected_packages[i].package = get_purl(args.package_slug).value
                  /\ affected_packages[i].package.version = NoVersion
                  /\ affected_packages[i].affected_version_range = ParsedRange(args)

\* A record with a range and two different fixed versions gave two entries
\* of one package and one range
C24_Witness ==
    /\ pc = "return"
    /\ HeadParses(args)
    /\ HasParsableRange(args)
    /\ Len(ListedFixedVersions(args)) = 2
    /\ \A j \in 1..2 : ListedFixedVersions(args)[j].parsable
    /\ ListedFixedVersions(args)[1] # ListedFixedVersions(args)[2]
    /\ Len(ret.value.affected_packages) = 2
    /\ ret.value.affected_packages[1].package = ret.value.affected_packages[2].package
    /\ ret.value.affected_packages[1].affected_version_range
            = ret.value.affected_packages[2].affected_version_range
    /\ ret.value.affected_packages[1].fixed_version
            # ret.value.affected_packages[2].fixed_version

-----------------------------------------------------------------------------
(* Claims about the PostgreSQL crawl (SpecCrawl) *)

\* The URLs the links of the pages of S lead to, and those of S
RECURSIVE ReachableFrom(_)
ReachableFrom(S) ==
    LET linked == S \cup UNION {{Url(url.host, href.path) :
                                    href \in site[url].advisory_links} : url \in S}
    IN  IF linked = S THEN S ELSE ReachableFrom(linked)

\* C25: updated_advisories terminates on every site of finitely many
\* pages, and when it returns the visited URLs are the known URLs, which
\* are the root URL and every URL reachable from it through advisory links.
C25_CrawlTerminatesWithAllReachableVisited ==
    /\ <>(pc = "return" \/ pc = "raise")
    /\ [](pc = "return" =>
            /\ visited_urls = known_urls
            /\ known_urls = ReachableFrom({root_url}))

\* The crawl returned after three pages, from a site where every page links
\* to one other page, so that the links close a cycle
C25_Witness ==
    /\ pc = "return"
    /\ Cardinality(visited_urls) = 3
    /\ Cardinality(site[root_url].advisory_links) = 1
    /\ \A url \in CrawlUrls :
          /\ Cardinality(site[url].advisory_links) = 1
          /\ Url("", url.path) \notin site[url].advisory_links

\* The number of advisories of the result that come from the page at url
AdvisoriesOfPage(url) ==
    Cardinality({i \in 1..Len(advisories) :
                    advisories[i].vulnerability_id = CveOf(url)})

\* C26: during the crawl visited_urls is a subset of known_urls, no URL is
\* requested more than once, and the advisories of a visited page are in
\* the result exactly once, those of any other page not at all.
C26_EveryPageFetchedOnce ==
    /\ visited_urls \subseteq known_urls
    /\ \A url \in DOMAIN request_count :
          /\ request_count[url] <= 1
          /\ AdvisoriesOfPage(url) = IF url \in visited_urls THEN 1 ELSE 0

\* The crawl returned from a site where every page links to every page,
\* itself included
C26_Witness ==
    /\ pc = "return"
    /\ \A url \in CrawlUrls : site[url].advisory_links = CrawlHrefs
    /\ visited_urls = CrawlUrls
    /\ Len(advisories) = 3
    /\ \A url \in CrawlUrls : request_count[url] = 1

-----------------------------------------------------------------------------
(* Claims about the advisories of a PostgreSQL page (SpecPostgres) *)

\* to_advisories returned the advisories of the page
PageParsed == pc = "return" /\ ret.raised = ""

\* C27: every advisory to_advisories builds carries the vulnerability id of
\* its own row: a row without a CVE id element gives no advisory with the id
\* of an earlier row.
C27_AdvisoryCarriesIdOfItsRow ==
    PageParsed =>
        \A i \in 1..Len(ret.value) :
            /\ args.rows[i].nobr # <<>>
            /\ ret.value[i].vulnerability_id = args.rows[i].nobr[1]

\* C28: a reference carries severities only when its own link starts with
\* "/", leads to a CVE page and the row has a vector link; every other
\* reference has no severities.
C28_SeveritiesOfOwnLinkOnly ==
    PageParsed =>
        \A i \in 1..Len(ret.value) :
            \A j \in 1..Len(ret.value[i].references) :
                ret.value[i].references[j].severities =
                    IF /\ StartsWithSlash(args.rows[i].a_tags[j])
                       /\ IsCvePage(args.rows[i].a_tags[j])
                       /\ args.rows[i].vector_link_tag # None
                    THEN Severities(args.rows[i].vector_link_tag)
                    ELSE <<>>

\* C29: every package handed to nearest_patched_package has a version, and
\* all packages of a row carry the same qualifiers, os=windows exactly when
\* the summary of the row mentions windows.
C29_PackagesHaveVersionAndQualifiers ==
    pc = "return" =>
        \A i \in 1..Len(ret.handed) :
            \A package \in SeqRange(ret.handed[i].vulnerable_packages)
                            \cup SeqRange(ret.handed[i].resolved_packages) :
                /\ package.version # NoVersion
                /\ package.qualifiers =
                      IF args.rows[i].desc_col.mentions_windows
                      THEN {<<"os", "windows">>}
                      ELSE {}

-----------------------------------------------------------------------------
(* Claims about the fetcher map over calls on one improver (SpecCalls) *)

\* The package URLs the map holds a fetcher for
StoredPurls(fetchers) == {purl \in DOMAIN fetchers : fetchers[purl] # None}

\* The call that has just returned failed before fetching: it logged that
\* the package has no API name or that the packages do not merge, or it was
\* a get_inferences call on an advisory without affected packages
FailedBeforeFetching(position, advisory, log) ==
    \/ \E i \in 1..Len(log) :
          log[i] \in {"Could not get versions", "Cannot merge with different purls"}
    \/ position = "get_inferences" /\ advisory.affected_packages = <<>>

\* C30: over any sequence of get_inferences and get_package_versions calls
\* on one improver, every fetcher constructed is stored under one package
\* URL of its own, a call never replaces the fetcher stored for a package
\* URL by another instance, and a call that fails before fetching leaves
\* the map as it was.
C30_FetcherStoredOnceNeverReplaced ==
    [][/\ \A purl \in StoredPurls(versions_fetcher_by_purl) :
            /\ purl \in StoredPurls(versions_fetcher_by_purl')
            /\ versions_fetcher_by_purl'[purl].id = versions_fetcher_by_purl[purl].id
       /\ Cardinality(StoredPurls(versions_fetcher_by_purl')) = fetchers_created'
       /\ \A purl, other \in StoredPurls(versions_fetcher_by_purl') :
            versions_fetcher_by_purl'[purl].id = versions_fetcher_by_purl'[other].id
                => purl = other
       /\ FailedBeforeFetching(pc', advisory_data', error_log')
            => versions_fetcher_by_purl' = versions_fetcher_by_purl]_vars

\* The last call was a get_inferences call that failed before fetching, on
\* an improver whose map holds a fetcher from the call before
C30_Witness ==
    /\ calls = MaxCalls
    /\ pc = "get_inferences"
    /\ FailedBeforeFetching(pc, advisory_data, error_log)
    /\ StoredPurls(versions_fetcher_by_purl) # {}

====
